---- MODULE Spec2Model ----
(***************************************************************************)
(* Plan interpreter and tool-execution engine of the question analyzer.    *)
(*                                                                         *)
(* Two packages implement it: question_analizer (mounted by api.py) and    *)
(* question_analizer2.  The variable impl says which one serves the        *)
(* request: 1 is question_analizer, 2 is question_analizer2.               *)
(*                                                                         *)
(* Python values are tagged records [kind |-> value].             A Python   *)
(* str is a sequence of tokens: the characters "$", "{", "}" and "." are   *)
(* tokens of their own and every maximal run of other characters the       *)
(* model uses is one token ("a", "center_id", "_available_range", ...), so *)
(* that regular expressions and str.split act on it as they do on the      *)
(* characters.  Result keys and field names are identifiers: they hold     *)
(* none of the four special characters.                                    *)
(***************************************************************************)
EXTENDS Integers, Sequences, FiniteSets, TLC

VARIABLES
    impl,            \* 1: question_analizer, 2: question_analizer2
    centers,         \* master_centers table: id -> [name, aliases]
    store,           \* Mongo collections: source -> sequence of documents
    pc,              \* position of the request handler
    plan,            \* the plan's list of steps
    pos,             \* index of the next step of the execution loop
    collected_data,  \* the execution context: result key -> payload
    calls,           \* tool methods entered on the ToolExecutor, in order
    writes,          \* assignments collected_data[key] = value, in order
    args,            \* arguments of a direct tool call
    result,          \* what the direct tool call returned
    user_wants_chart,\* whether the question was taken as a chart request
    synth,           \* the context synthesize_response was called with, None before
    response         \* the FinalResponse the endpoint returned, None before

vars == <<impl, centers, store, pc, plan, pos, collected_data, calls, writes, args, result,
          user_wants_chart, synth, response>>

-----------------------------------------------------------------------------
(* Python values *)

None == [none |-> 0]
Missing == [missing |-> 0]
IntV(n) == [int |-> n]
BoolV(b) == [bool |-> b]
StrV(s) == [str |-> s]
ListV(l) == [list |-> l]
DictV(d) == [dict |-> d]
ObjV(o) == [object |-> o]

\* the kind of a value and what it holds
K(x) == CHOOSE f \in DOMAIN x : TRUE
V(x) == x[K(x)]

Word(w) == StrV(<<w>>)

\* bool(x) of Python
Truthy(x) ==
    CASE K(x) = "none" -> FALSE
      [] K(x) = "missing" -> FALSE
      [] K(x) = "int" -> V(x) # 0
      [] K(x) = "bool" -> V(x)
      [] K(x) = "str" -> V(x) # <<>>
      [] K(x) = "list" -> V(x) # <<>>
      [] K(x) = "dict" -> DOMAIN V(x) # {}
      [] OTHER -> TRUE

Range(s) == {s[i] : i \in DOMAIN s}

\* a plausible slip: the first value stored under a key is kept
PutIfAbsent(d, key, value) ==
    [x \in DOMAIN d \cup {key} |-> IF x \in DOMAIN d THEN d[x] ELSE value]

\* d[key] = value on a dict held as a function
Put(d, key, value) == [x \in DOMAIN d \cup {key} |-> IF x = key THEN value ELSE d[x]]

\* dict.get(key, default)
Get(d, key, default) == IF key \in DOMAIN d THEN d[key] ELSE default

EmptyDict == [x \in {} |-> None]

-----------------------------------------------------------------------------
(* Metric catalog *)

FULL_METRIC_MAP ==
    [clima |->
        [fecha |-> "FECHA", center_name_field |-> "NAME",
         metrics |-> [temperatura_minima |-> "TEMP_MIN_C",
                      temperatura_maxima |-> "TEMP_MAX_C",
                      temperatura_tarde |-> "TEMP_TARDE",
                      presion |-> "PRESION_HPA",
                      humedad |-> "HUMEDAD_%",
                      viento |-> "VIENTO_VEL_MS",
                      precipitacion |-> "PRECIPITACION_TOTAL_MM"]],
     alimentacion |->
        [fecha |-> "Fecha", center_name_field |-> "Centro",
         metrics |-> [alimento_total |-> "Alimentos",
                      sfr |-> "SFR en periodo",
                      fcr_biologico |-> "FCR Biologico Acum",
                      crecimiento_bruto |-> "Crecimiento bruto",
                      sgr |-> "SGR en periodo",
                      mortalidad |-> "Mortalidad",
                      biomasa_mortalidad |-> "Biomasa Mortalidad Acum",
                      temperatura_marina |-> "Temperatura Promedio",
                      peso_promedio |-> "Desarrollo del Peso Promedio",
                      biomasa_total_actual |-> "Saldo Final Biomasa",
                      peces_ingresados |-> "Numero Ingreso"]]]

ALIAS_KEYS_MAP == [clima |-> "climaV2_db_code", alimentacion |-> "resumenAlimentacion_db_name"]

\* The name a str value spells when it is a single identifier, "" otherwise
NameOf(x) == IF K(x) = "str" /\ Len(V(x)) = 1 THEN V(x)[1] ELSE ""

-----------------------------------------------------------------------------
(* Environment of one tool call: whether the relational database and the   *)
(* Mongo store answer or throw.                                            *)

Envs == [sql_up : BOOLEAN, mongo_up : BOOLEAN]
Healthy == [sql_up |-> TRUE, mongo_up |-> TRUE]

\* An exception leaving a function
Raise == [raise |-> 0]

ErrorPayload(msg) == DictV([error |-> Word(msg)])
IsError(x) == K(x) = "dict" /\ "error" \in DOMAIN V(x)

-----------------------------------------------------------------------------
(* Dates: a timestamp is a day number; a date string spells one *)

LastDay == 3
DateStr(d) == "2024-01-" \o ToString(d)
IsDateStr(x) == \E d \in 1..LastDay : NameOf(x) = DateStr(d)
\* A datetime is a count of half seconds, and a day of the model holds two of them:
\* its midnight and the half second after it.
Midnight(d) == 2 * d
DayOf(t) == t \div 2

\* dateutil.parser.parse on a string that spells a date: the day's midnight
date_parser_parse(x) == Midnight(CHOOSE d \in 1..LastDay : NameOf(x) = DateStr(d))

\* .replace(hour=23, minute=59, second=59)
EndOfDay(t) == Midnight(DayOf(t)) + 1

-----------------------------------------------------------------------------
(* Sequences *)

\* $sort {campo: dir}: whether document x must stand before document y
Before(x, y, campo, dir) == IF dir = 1 THEN x[campo] < y[campo] ELSE x[campo] > y[campo]

RECURSIVE Insert(_, _, _, _)
\* x put into the sorted sequence s, after the elements it need not precede
Insert(s, x, campo, dir) ==
    IF s = <<>> THEN <<x>>
    ELSE IF Before(x, Head(s), campo, dir) THEN <<x>> \o s
    ELSE <<Head(s)>> \o Insert(Tail(s), x, campo, dir)

RECURSIVE SortStage(_, _, _)
\* $sort {campo: dir}, dir 1 ascending and -1 descending
SortStage(s, campo, dir) ==
    IF s = <<>> THEN <<>>
    ELSE Insert(SortStage(SubSeq(s, 1, Len(s) - 1), campo, dir), s[Len(s)], campo, dir)

\* $limit n
Take(s, n) == SubSeq(s, 1, IF n < Len(s) THEN n ELSE Len(s))

MapSeq(s, f(_)) == [i \in DOMAIN s |-> f(s[i])]

-----------------------------------------------------------------------------
(* Site alias resolver *)

\* json.loads of the text of a one-entry object, {"key": "value"}, written as the
\* tokens "{", key, ":", value, "}"; any other text does not decode to a dict
json_loads(text) ==
    IF Len(V(text)) = 5 /\ V(text)[1] = "{" /\ V(text)[3] = ":" /\ V(text)[5] = "}"
    THEN DictV([x \in {V(text)[2]} |-> Word(V(text)[4])])
    ELSE None

\* self.db.query(MasterCenter).filter(MasterCenter.id == center_id).first()
\* (an id that is not an integer makes the integer column comparison throw)
SqlRaises(center_id, env) == ~env.sql_up \/ K(center_id) \notin {"int", "none"}

_get_master_center_by_id(center_id) ==
    IF K(center_id) = "int" /\ V(center_id) \in DOMAIN centers
    THEN ObjV(centers[V(center_id)] @@ [id |-> V(center_id)])
    ELSE None

_get_alias_value(center, source) ==
    LET aliases == IF K(V(center).aliases) = "str" THEN json_loads(V(center).aliases)
                   ELSE V(center).aliases
        src == NameOf(source)
    IN  IF K(aliases) # "dict" THEN None
        ELSE IF src \notin DOMAIN ALIAS_KEYS_MAP THEN None
        ELSE LET alias_value == Get(V(aliases), ALIAS_KEYS_MAP[src], None)
             IN  IF ~Truthy(alias_value) THEN None ELSE alias_value

\* None, or the filter {mongo_field: alias_value}
_build_mongo_filter(center_id, source) ==
    LET master_center == _get_master_center_by_id(center_id)
    IN  IF ~Truthy(master_center) THEN None
        ELSE LET alias_value == _get_alias_value(master_center, source)
                 mongo_field == FULL_METRIC_MAP[NameOf(source)].center_name_field
             IN  IF alias_value = None THEN None
                 ELSE DictV([x \in {mongo_field} |-> alias_value])

-----------------------------------------------------------------------------
(* Query builder: the stages of an aggregation pipeline.  A document is a  *)
(* function from its field names to their values; every document of a     *)
(* collection holds the collection's date field and site field.            *)

DEFAULT_LIMIT == 20

\* {"$match": {site_field: {"$in": aliases}, date_field: {"$gte": lo, "$lte": hi}}}
\* (hi is the end date at 23:59:59, so the whole end day matches)
MatchStage(docs, config, aliases, ranged, lo, hi) ==
    SelectSeq(docs, LAMBDA d :
        /\ d[config.center_name_field] \in aliases
        /\ ranged => (lo <= d[config.fecha] /\ d[config.fecha] <= EndOfDay(hi)))

\* a plausible slip: the whole catalog projected when no requested metric is valid
WholeCatalogWhenNoneValid(metrics, config) ==
    LET valid == {NameOf(V(metrics)[i]) : i \in DOMAIN V(metrics)} \cap DOMAIN config.metrics
    IN  IF valid = {} THEN DOMAIN config.metrics ELSE valid

\* the names among the requested metrics that the catalog of the source holds
ValidMetrics(metrics, config) ==
    {NameOf(V(metrics)[i]) : i \in DOMAIN V(metrics)} \cap DOMAIN config.metrics

\* {"$project": {"_id": 0, "fecha": "$<date_field>", metric: "$<field>", ...}}
\* keep is the set of fields projected under their own name
ProjectStage(docs, config, valid, keep) ==
    MapSeq(docs, LAMBDA d :
        [x \in {"fecha"} \cup {m \in valid : config.metrics[m] \in DOMAIN d}
                         \cup (keep \cap DOMAIN d) |->
            IF x = "fecha" THEN d[config.fecha]
            ELSE IF x \in keep THEN d[x]
            ELSE d[config.metrics[x]]])

\* a plausible slip: the ascending re-sort left out
ChronologicalSkipped(rows) == rows

\* {"$sort": {"fecha": 1}}: the rows re-ordered chronologically for the caller
Chronological(rows) == SortStage(rows, "fecha", 1)

\* a plausible slip: the most recent records not brought to the front
MostRecentFirstAscending(docs, date_field) == SortStage(docs, date_field, 1)

\* {"$sort": {date_field: -1}}: most recent first, so that $limit keeps the latest
MostRecentFirst(docs, date_field) == SortStage(docs, date_field, -1)

\* $limit accepts a positive integer only; anything else makes aggregate() throw
LimitOk(apply_limit) == ~Truthy(apply_limit) \/ (K(apply_limit) = "int" /\ V(apply_limit) > 0)

LimitStage(docs, apply_limit) == IF Truthy(apply_limit) THEN Take(docs, V(apply_limit)) ELSE docs

\* for metric in metrics: a list yields its items, a str its characters (no
\* character is a metric name); anything else cannot be iterated
Iterable(x) == K(x) \in {"list", "str"}
AsList(x) == IF K(x) = "list" THEN x ELSE ListV(<<>>)

\* a value that cannot be a dict key: `x in FULL_METRIC_MAP` throws on it
Unhashable(x) == K(x) \in {"list", "dict"}

\* a plausible slip: the preview limit for every call without a complete date range
PreviewUnlessRange(a) == a.limit = None /\ ~(Truthy(a.start_date) /\ Truthy(a.end_date))

\* if limit is None and not start_date and not end_date: the default limit of a
\* preview is applied
PreviewLimit(a) == a.limit = None /\ ~Truthy(a.start_date) /\ ~Truthy(a.end_date)

\* the date filter is built only when both dates are given
WantsRange(a) == Truthy(a.start_date) /\ Truthy(a.end_date)

-----------------------------------------------------------------------------
(* get_timeseries_data of question_analizer *)

get_timeseries_data(a, env) ==
    LET default_limit_applied == PreviewLimit(a)
        apply_limit == IF default_limit_applied THEN IntV(DEFAULT_LIMIT) ELSE a.limit
        src == NameOf(a.source)
    IN  IF Unhashable(a.source) THEN Raise
        ELSE IF src \notin DOMAIN FULL_METRIC_MAP THEN ErrorPayload("Fuente no reconocida")
        ELSE IF SqlRaises(a.center_id, env) THEN Raise
        ELSE LET match_filter == _build_mongo_filter(a.center_id, a.source)
                 config == FULL_METRIC_MAP[src]
             IN  IF ~Truthy(match_filter) THEN ErrorPayload("No se pudo crear un filtro")
                 ELSE IF WantsRange(a) /\ (K(a.start_date) # "str" \/ K(a.end_date) # "str") THEN Raise
                 ELSE IF WantsRange(a) /\ ~(IsDateStr(a.start_date) /\ IsDateStr(a.end_date))
                      THEN ErrorPayload("Formato de fecha invalido")
                 ELSE IF ~Iterable(a.metrics) THEN Raise
                 ELSE LET valid == ValidMetrics(AsList(a.metrics), config)
                          lo == IF WantsRange(a) THEN date_parser_parse(a.start_date) ELSE 0
                          hi == IF WantsRange(a) THEN date_parser_parse(a.end_date) ELSE 0
                          matched == MatchStage(store[src], config, {NameOf(V(match_filter)[config.center_name_field])},
                                                WantsRange(a), lo, hi)
                          recent == LimitStage(MostRecentFirst(matched, config.fecha), apply_limit)
                          data == Chronological(ProjectStage(recent, config, valid, {}))
                      IN  IF valid = {} THEN ErrorPayload("Ninguna de las metricas es valida")
                          ELSE IF ~env.mongo_up \/ ~LimitOk(apply_limit)
                               THEN ErrorPayload("Ocurrio un error al consultar la base de datos")
                          ELSE IF data = <<>>
                               THEN DictV([count |-> IntV(0), data |-> ListV(<<>>),
                                           summary |-> Word("No se encontraron datos.")])
                          ELSE DictV([count |-> IntV(Len(data)), data |-> ListV(data),
                                      default_limit_used |-> BoolV(default_limit_applied)])

-----------------------------------------------------------------------------
(* get_timeseries_data of question_analizer2: one site id or a list of them *)

\* the ids the call runs over, in order
ids_a_procesar(center_ids) == IF K(center_ids) = "int" THEN <<center_ids>> ELSE V(center_ids)

\* the aliases of the sites that exist and have an alias for the source
AliasValues(ids, source) ==
    LET found == SelectSeq(ids, LAMBDA id :
            /\ Truthy(_get_master_center_by_id(id))
            /\ Truthy(_get_alias_value(_get_master_center_by_id(id), source)))
    IN  MapSeq(found, LAMBDA id : NameOf(_get_alias_value(_get_master_center_by_id(id), source)))

get_timeseries_data2(a, env) ==
    LET default_limit_applied == PreviewLimit(a)
        apply_limit == IF default_limit_applied THEN IntV(DEFAULT_LIMIT) ELSE a.limit
        src == NameOf(a.source)
    IN  IF Unhashable(a.source) THEN Raise
        ELSE IF src \notin DOMAIN FULL_METRIC_MAP THEN ErrorPayload("Fuente no reconocida")
        ELSE IF K(a.center_ids) \notin {"int", "list"} THEN Raise
        ELSE IF \E i \in DOMAIN ids_a_procesar(a.center_ids) :
                    SqlRaises(ids_a_procesar(a.center_ids)[i], env) THEN Raise
        ELSE LET alias_values == AliasValues(ids_a_procesar(a.center_ids), a.source)
                 config == FULL_METRIC_MAP[src]
             IN  IF alias_values = <<>> THEN ErrorPayload("Ninguno de los IDs de centro es valido")
                 ELSE IF WantsRange(a) /\ ~(IsDateStr(a.start_date) /\ IsDateStr(a.end_date)) THEN Raise
                 ELSE IF ~Iterable(a.metrics) THEN Raise
                 ELSE LET valid == ValidMetrics(AsList(a.metrics), config)
                          lo == IF WantsRange(a) THEN date_parser_parse(a.start_date) ELSE 0
                          hi == IF WantsRange(a) THEN date_parser_parse(a.end_date) ELSE 0
                          matched == MatchStage(store[src], config, Range(alias_values),
                                                WantsRange(a), lo, hi)
                          recent == LimitStage(MostRecentFirst(matched, config.fecha), apply_limit)
                          data == Chronological(ProjectStage(recent, config, valid,
                                                             {config.center_name_field}))
                      IN  IF valid = {} THEN ErrorPayload("Ninguna de las metricas es valida")
                          ELSE IF ~env.mongo_up \/ ~LimitOk(apply_limit)
                               THEN ErrorPayload("Ocurrio un error al consultar la base de datos")
                          ELSE IF data = <<>>
                               THEN DictV([count |-> IntV(0), data |-> ListV(<<>>),
                                           summary |-> Word("No se encontraron datos.")])
                          ELSE DictV([count |-> IntV(Len(data)), data |-> ListV(data),
                                      default_limit_used |-> BoolV(default_limit_applied)])

-----------------------------------------------------------------------------
(* Tools on the master_centers table *)

\* str.lower() on the names the model uses
LowerTable == [Pirquen |-> "pirquen", Polocuhe |-> "polocuhe", Tercero |-> "tercero",
               Cuarto |-> "cuarto"]
Lower(w) == IF w \in DOMAIN LowerTable THEN LowerTable[w] ELSE w

\* canonical_name ILIKE '%pattern%': the empty pattern matches every name, a
\* one-token pattern the names equal to it up to case
ilike(name, pattern) == pattern = <<>> \/ (Len(pattern) = 1 /\ Lower(name) = Lower(pattern[1]))

\* the rows .first() may return (0: no row); the query states no order
FirstRows(center_name) ==
    LET rows == {id \in DOMAIN centers : K(center_name) = "str" /\
                    ilike(centers[id].canonical_name, V(center_name))}
    IN  IF rows = {} THEN {0} ELSE rows

get_center_id_by_name(a, env, first) ==
    IF K(a.center_name) # "str" \/ ~env.sql_up
    THEN ErrorPayload("Error en la base de datos al buscar el centro")
    ELSE IF first = 0 THEN ErrorPayload("No se encontro un centro con el nombre")
    ELSE DictV([center_id |-> IntV(first), center_name |-> Word(centers[first].canonical_name)])

\* ORDER BY canonical_name: the ids of the table in the order of their names
Collation == <<"Cuarto", "Pirquen", "Polocuhe", "Tercero">>
order_by_canonical_name ==
    LET named == SelectSeq(Collation, LAMBDA n : \E id \in DOMAIN centers : centers[id].canonical_name = n)
    IN  MapSeq(named, LAMBDA n : CHOOSE id \in DOMAIN centers : centers[id].canonical_name = n)

center_list == MapSeq(order_by_canonical_name, LAMBDA id :
                    DictV([id |-> IntV(id), name |-> Word(centers[id].canonical_name)]))

get_all_centers(a, env) ==
    IF ~env.sql_up THEN ErrorPayload("No se pudo obtener la lista de centros")
    ELSE IF order_by_canonical_name = <<>> THEN DictV([count |-> IntV(0), centers |-> ListV(<<>>)])
    ELSE DictV([count |-> IntV(Len(center_list)), centers |-> ListV(center_list)])

get_all_centers2(a, env) ==
    IF ~env.sql_up THEN ErrorPayload("No se pudo obtener la lista de centros")
    ELSE IF order_by_canonical_name = <<>>
         THEN DictV([count |-> IntV(0), centers |-> ListV(<<>>), center_ids |-> ListV(<<>>)])
    ELSE DictV([count |-> IntV(Len(center_list)), centers |-> ListV(center_list),
                center_ids |-> ListV(MapSeq(order_by_canonical_name, LAMBDA id : IntV(id)))])

-----------------------------------------------------------------------------
(* get_data_range_for_source, the same in both packages *)

Min(S) == CHOOSE x \in S : \A y \in S : x <= y
Max(S) == CHOOSE x \in S : \A y \in S : x >= y

\* datetime.strftime('%Y-%m-%d')
strftime(t) == Word(DateStr(DayOf(t)))

get_data_range_for_source(a, env) ==
    LET src == NameOf(a.source)
    IN  IF Unhashable(a.source) THEN Raise
        ELSE IF src \notin DOMAIN FULL_METRIC_MAP THEN ErrorPayload("Fuente no reconocida")
        ELSE IF SqlRaises(a.center_id, env) THEN Raise
        ELSE LET match_filter == _build_mongo_filter(a.center_id, a.source)
                 config == FULL_METRIC_MAP[src]
             IN  IF ~Truthy(match_filter) THEN ErrorPayload("No se pudo crear un filtro")
                 ELSE LET matched == MatchStage(store[src], config, {NameOf(V(match_filter)[config.center_name_field])},
                                                FALSE, 0, 0)
                          dates == {matched[i][config.fecha] : i \in DOMAIN matched}
                      IN  IF ~env.mongo_up THEN ErrorPayload("No se pudo determinar el rango de fechas")
                          ELSE IF dates = {} THEN DictV([has_data |-> BoolV(FALSE)])
                          ELSE DictV([has_data |-> BoolV(TRUE),
                                      first_record |-> strftime(Min(dates)),
                                      last_record |-> strftime(Max(dates))])

-----------------------------------------------------------------------------
(* correlate_timeseries_data: the primary source's rows joined by day with    *)
(* the secondary source's                                                     *)

\* {"$project": secondary_projection}: the valid secondary metrics the document holds
SecondaryProject(d, config, valid) ==
    [x \in {m \in valid : config.metrics[m] \in DOMAIN d} |-> d[config.metrics[x]]]

RECURSIVE LookupUnwind(_, _, _, _)
\* $lookup on the same day, $unwind keeping the rows with no partner, $replaceRoot
\* merging each partner's fields over the row's
LookupUnwind(rows, docs, config, valid) ==
    IF rows = <<>> THEN <<>>
    ELSE LET row == Head(rows)
             partners == SelectSeq(docs, LAMBDA d : DayOf(d[config.fecha]) = DayOf(row.fecha))
             merged == IF partners = <<>> THEN <<row>>
                       ELSE MapSeq(partners, LAMBDA d : SecondaryProject(d, config, valid) @@ row)
         IN  merged \o LookupUnwind(Tail(rows), docs, config, valid)

\* the documents of the secondary source the $lookup's pipeline matches on the site
SecondaryDocs(source, alias) ==
    SelectSeq(store[source], LAMBDA d : d[FULL_METRIC_MAP[source].center_name_field] = alias)

\* the pipeline of both packages past $match, $sort and $limit
CorrelatePipeline(recent, p_config, s_config, validP, validS, secondary) ==
    Chronological(LookupUnwind(ProjectStage(recent, p_config, validP, {}),
                               secondary, s_config, validS))

\* the rows of the aggregation: $match on the primary alias and the dates, $sort
\* most recent first, $limit when limited, then the join
CorrelateRows(a, primary_alias, secondary_alias, ranged, lo, hi, apply_limit) ==
    LET p_config == FULL_METRIC_MAP[NameOf(a.primary_source)]
        s_config == FULL_METRIC_MAP[NameOf(a.secondary_source)]
        sorted == MostRecentFirst(MatchStage(store[NameOf(a.primary_source)], p_config,
                                             {NameOf(primary_alias)}, ranged, lo, hi), p_config.fecha)
    IN  CorrelatePipeline(LimitStage(sorted, apply_limit),
                          p_config, s_config,
                          ValidMetrics(AsList(a.primary_metrics), p_config),
                          ValidMetrics(AsList(a.secondary_metrics), s_config),
                          SecondaryDocs(NameOf(a.secondary_source), NameOf(secondary_alias)))

\* what stops a correlation before the query: an exception or an error payload;
\* None when nothing does
SourcesRefused(a) ==
    IF Unhashable(a.primary_source) THEN Raise
    ELSE IF NameOf(a.primary_source) \notin DOMAIN FULL_METRIC_MAP
         THEN ErrorPayload("Una de las fuentes de datos no es valida")
    ELSE IF Unhashable(a.secondary_source) THEN Raise
    ELSE IF NameOf(a.secondary_source) \notin DOMAIN FULL_METRIC_MAP
         THEN ErrorPayload("Una de las fuentes de datos no es valida")
    ELSE None

\* the date filter and the projections: what they throw on
FilterRaises(a, start_date, end_date) ==
    \/ (Truthy(start_date) /\ Truthy(end_date) /\ ~(IsDateStr(start_date) /\ IsDateStr(end_date)))
    \/ ~Iterable(a.primary_metrics) \/ ~Iterable(a.secondary_metrics)

\* question_analizer: limit defaults to 100 and always makes a $limit stage
Correlate1(a, env, master_center, primary_filter, secondary_alias_value) ==
    IF ~Truthy(master_center) THEN ErrorPayload("Centro no encontrado")
    ELSE IF ~Truthy(primary_filter) \/ ~Truthy(secondary_alias_value)
         THEN ErrorPayload("No se pudieron obtener los aliases")
    ELSE IF FilterRaises(a, a.start_date, a.end_date) THEN Raise
    ELSE IF ~env.mongo_up \/ K(a.limit) # "int" \/ V(a.limit) <= 0
         THEN ErrorPayload("No se pudieron correlacionar los datos")
    ELSE LET data == CorrelateRows(a,
                        V(primary_filter)[FULL_METRIC_MAP[NameOf(a.primary_source)].center_name_field],
                        secondary_alias_value, WantsRange(a),
                        IF WantsRange(a) THEN date_parser_parse(a.start_date) ELSE 0,
                        IF WantsRange(a) THEN date_parser_parse(a.end_date) ELSE 0, a.limit)
         IN  DictV([count |-> IntV(Len(data)), data |-> ListV(data)])

correlate_timeseries_data(a, env) ==
    IF SourcesRefused(a) # None THEN SourcesRefused(a)
    ELSE IF SqlRaises(a.center_id, env) THEN Raise
    ELSE Correlate1(a, env, _get_master_center_by_id(a.center_id),
                    _build_mongo_filter(a.center_id, a.primary_source),
                    IF Truthy(_get_master_center_by_id(a.center_id))
                    THEN _get_alias_value(_get_master_center_by_id(a.center_id), a.secondary_source)
                    ELSE None)

\* str(x) inside an f-string
PyStr(x) == IF K(x) = "str" THEN NameOf(x) ELSE IF K(x) = "int" THEN ToString(V(x)) ELSE "None"

HasData(range) == K(range) = "dict" /\ Truthy(Get(V(range), "has_data", None))

\* a plausible slip: the period either source covers, not the one both cover
OverlapUnion(range1, range2) ==
    IF range1 = Raise \/ range2 = Raise THEN Raise
    ELSE IF ~(HasData(range1) /\ HasData(range2))
         THEN ErrorPayload("No se encontraron datos suficientes en una o ambas fuentes")
    ELSE [final_start_date |-> strftime(Min({date_parser_parse(V(range1).first_record),
                                             date_parser_parse(V(range2).first_record)})),
          final_end_date |-> strftime(Max({date_parser_parse(V(range1).last_record),
                                           date_parser_parse(V(range2).last_record)}))]

\* question_analizer2, no date given: the period both sources cover, from the two
\* range lookups; an exception or an error payload when there is none
Overlap(range1, range2) ==
    IF range1 = Raise \/ range2 = Raise THEN Raise
    ELSE IF ~(HasData(range1) /\ HasData(range2))
         THEN ErrorPayload("No se encontraron datos suficientes en una o ambas fuentes")
    ELSE LET overlap_start == Max({date_parser_parse(V(range1).first_record),
                                   date_parser_parse(V(range2).first_record)})
             overlap_end == Min({date_parser_parse(V(range1).last_record),
                                 date_parser_parse(V(range2).last_record)})
         IN  IF overlap_start <= overlap_end
             THEN [final_start_date |-> strftime(overlap_start), final_end_date |-> strftime(overlap_end)]
             ELSE ErrorPayload("Se encontraron datos para ambas fuentes, pero no en el mismo periodo")

\* a plausible slip: the preview limit decided on the dates of the call
DefaultLimitByCall(a, final_start_date, final_end_date) ==
    a.limit = None /\ ~Truthy(a.start_date) /\ ~Truthy(a.end_date)

\* question_analizer2: the default limit applies with no limit and no final date
DefaultLimitApplied(a, final_start_date, final_end_date) ==
    a.limit = None /\ ~Truthy(final_start_date) /\ ~Truthy(final_end_date)
ApplyLimit(a, final_start_date, final_end_date) ==
    IF DefaultLimitApplied(a, final_start_date, final_end_date) THEN IntV(DEFAULT_LIMIT) ELSE a.limit

\* question_analizer2, past the choice of the dates
Correlate2(a, env, final_start_date, final_end_date, master_center) ==
    IF ~Truthy(master_center) THEN ErrorPayload("Centro no encontrado")
    ELSE IF ~Truthy(_get_alias_value(master_center, a.primary_source))
            \/ ~Truthy(_get_alias_value(master_center, a.secondary_source))
         THEN ErrorPayload("No se pudieron obtener los aliases")
    ELSE IF FilterRaises(a, final_start_date, final_end_date) THEN Raise
    ELSE IF ~env.mongo_up \/ ~LimitOk(ApplyLimit(a, final_start_date, final_end_date))
         THEN ErrorPayload("No se pudieron correlacionar los datos")
    ELSE LET ranged == Truthy(final_start_date) /\ Truthy(final_end_date)
             data == CorrelateRows(a, _get_alias_value(master_center, a.primary_source),
                                   _get_alias_value(master_center, a.secondary_source), ranged,
                                   IF ranged THEN date_parser_parse(final_start_date) ELSE 0,
                                   IF ranged THEN date_parser_parse(final_end_date) ELSE 0,
                                   ApplyLimit(a, final_start_date, final_end_date))
         IN  DictV([count |-> IntV(Len(data)), data |-> ListV(data),
                    default_limit_used |->
                        BoolV(DefaultLimitApplied(a, final_start_date, final_end_date)),
                    date_range_used |->
                        IF Truthy(final_start_date)
                        THEN StrV(<<PyStr(final_start_date), " a ", PyStr(final_end_date)>>)
                        ELSE Word("Ultimos registros")])

\* the part of the function from the limit on
Correlate2From(a, env, final_start_date, final_end_date) ==
    IF SourcesRefused(a) # None THEN SourcesRefused(a)
    ELSE IF SqlRaises(a.center_id, env) THEN Raise
    ELSE Correlate2(a, env, final_start_date, final_end_date, _get_master_center_by_id(a.center_id))

\* the part of the function that follows the search of the overlap
Correlate2After(a, env, found) ==
    IF found = Raise \/ IsError(found) THEN found
    ELSE Correlate2From(a, env, found.final_start_date, found.final_end_date)

correlate_timeseries_data2(a, env) ==
    IF ~Truthy(a.start_date) /\ ~Truthy(a.end_date)
    THEN Correlate2After(a, env,
            Overlap(get_data_range_for_source([center_id |-> a.center_id, source |-> a.primary_source], env),
                    get_data_range_for_source([center_id |-> a.center_id, source |-> a.secondary_source], env)))
    ELSE Correlate2From(a, env, a.start_date, a.end_date)

-----------------------------------------------------------------------------
(* Fixture: the master_centers table *)

FixtureCenters ==
    [id \in 1..4 |->
        CASE id = 1 -> [canonical_name |-> "Pirquen",
                        aliases |-> DictV([climaV2_db_code |-> Word("PIR"),
                                           resumenAlimentacion_db_name |-> Word("Pirquen")])]
          [] id = 2 -> [canonical_name |-> "Polocuhe",
                        aliases |-> DictV([climaV2_db_code |-> Word("POL"),
                                           resumenAlimentacion_db_name |-> Word("Polocuhe")])]
          [] id = 3 -> [canonical_name |-> "Tercero",
                        aliases |-> DictV([resumenAlimentacion_db_name |-> Word("Tercero")])]
          [] OTHER  -> [canonical_name |-> "Cuarto",
                        aliases |-> StrV(<<"{", "climaV2_db_code", ":", "CUA", "}">>)]]

\* a site id of no row of the table
UnknownId == 9

-----------------------------------------------------------------------------
(* Bounds of the store contents *)

MaxPerDay == 7
PerDayCounts == {0, 1, MaxPerDay}

\* the order in which the store holds the days: 2, 3, ..., LastDay, 1
DayOrder == [i \in 1..LastDay |-> (i % LastDay) + 1]

ClimaDoc(alias, day) == [NAME |-> alias, FECHA |-> Midnight(day), TEMP_MAX_C |-> 10 + day]

RECURSIVE ClimaDocs(_, _, _)
\* cnt[day] documents of the site for each day, the days in DayOrder from position i on
ClimaDocs(alias, cnt, i) ==
    IF i > LastDay THEN <<>>
    ELSE [j \in 1..cnt[DayOrder[i]] |-> ClimaDoc(alias, DayOrder[i])] \o ClimaDocs(alias, cnt, i + 1)

\* the stores a direct call runs against: any number of PIR documents per day,
\* one POL document on day 1, no document of CUA
FetchStores ==
    {[clima |-> ClimaDocs("PIR", cnt, 1) \o <<ClimaDoc("POL", 1)>>, alimentacion |-> <<>>] :
        cnt \in [1..LastDay -> PerDayCounts]}

-----------------------------------------------------------------------------
(* Direct calls of get_timeseries_data: SpecFetch *)

Metric(m) == ListV(<<Word(m)>>)

FetchLimits == {None, IntV(0), IntV(1), IntV(2), IntV(DEFAULT_LIMIT + 1), IntV(-1)}
FetchStarts == {None, Word(DateStr(1)), Word(DateStr(2)), Word("ayer")}
FetchEnds == {None, Word(DateStr(2)), Word(DateStr(LastDay))}

\* the calls on the site that has data, every limit with every date range
FetchCommon ==
    [source : {Word("clima")}, metrics : {Metric("temperatura_maxima")},
     start_date : FetchStarts, end_date : FetchEnds, limit : FetchLimits]

\* the calls with another source, other metrics
FetchOther ==
    [source : {Word("clima"), Word("alimentacion"), Word("satelite")},
     metrics : {Metric("temperatura_maxima"), Metric("salinidad"), Word("temperatura_maxima"),
                ListV(<<Word("salinidad"), Word("temperatura_maxima")>>)},
     start_date : {None}, end_date : {None}, limit : {None, IntV(2)}]

FetchSites == {IntV(1), IntV(3), IntV(4), IntV(UnknownId)}
FetchSiteLists == FetchSites \cup
    {ListV(<<IntV(1), IntV(2)>>), ListV(<<IntV(1), IntV(3)>>), ListV(<<IntV(3)>>), ListV(<<>>)}

\* the bound arguments of a call, by package
FetchArgs(i) ==
    IF i = 1
    THEN {r @@ [center_id |-> c] : r \in FetchCommon \cup FetchOther, c \in FetchSites}
    ELSE {r @@ [center_ids |-> c] : r \in FetchCommon \cup FetchOther, c \in FetchSiteLists}

Idle ==
    /\ user_wants_chart = FALSE
    /\ synth = None
    /\ response = None
    /\ plan = <<>>
    /\ pos = 0
    /\ collected_data = EmptyDict
    /\ calls = <<>>
    /\ writes = <<>>

InitFetch ==
    /\ impl \in {1, 2}
    /\ centers = FixtureCenters
    /\ store \in FetchStores
    /\ pc = "call"
    /\ args \in FetchArgs(impl)
    /\ result = None
    /\ Idle

\* the tool is called and returns, or throws
CallTimeseries ==
    /\ pc = "call"
    /\ \E env \in Envs :
        result' = IF impl = 1 THEN get_timeseries_data(args, env)
                  ELSE get_timeseries_data2(args, env)
    /\ pc' = "returned"
    /\ UNCHANGED <<response, user_wants_chart, synth, impl, centers, store, plan, pos, collected_data, calls, writes, args>>

NextFetch == CallTimeseries

SpecFetch == InitFetch /\ [][NextFetch]_vars

-----------------------------------------------------------------------------
(* Properties of get_timeseries_data, under SpecFetch *)

Returned == pc = "returned"
Succeeded == Returned /\ K(result) = "dict" /\ "error" \notin DOMAIN V(result)

NoDates == args.start_date = None /\ args.end_date = None

\* the documents of the store the call's filter matches
Matched ==
    LET config == FULL_METRIC_MAP[NameOf(args.source)]
        ids == IF impl = 1 THEN <<args.center_id>> ELSE ids_a_procesar(args.center_ids)
    IN  MatchStage(store[NameOf(args.source)], config, Range(AliasValues(ids, args.source)),
                   WantsRange(args),
                   IF WantsRange(args) THEN date_parser_parse(args.start_date) ELSE 0,
                   IF WantsRange(args) THEN date_parser_parse(args.end_date) ELSE 0)

\* C7: a call with no start_date, no end_date and no limit that returns a result
\* returns one with default_limit_used == true and count <= 20.
C7_DefaultPreview ==
    (Succeeded /\ NoDates /\ args.limit = None) =>
        /\ "default_limit_used" \in DOMAIN V(result)
        /\ V(result).default_limit_used = BoolV(TRUE)
        /\ V(V(result).count) <= DEFAULT_LIMIT

\* C8: a call with an explicit limit L >= 0 and no date range returns a result with
\* count <= L and default_limit_used == false.
C8_ExplicitLimit ==
    (Succeeded /\ NoDates /\ K(args.limit) = "int" /\ V(args.limit) >= 0) =>
        /\ V(V(result).count) <= V(args.limit)
        /\ "default_limit_used" \in DOMAIN V(result)
        /\ V(result).default_limit_used = BoolV(FALSE)

\* C9: every successful result has its data in non-decreasing timestamp order, and
\* the records it holds are the most recent ones the filter matches: every matching
\* record later than the earliest returned one is returned.
C9_Chronological ==
    Succeeded =>
        LET data == V(V(result).data)
        IN  /\ \A i, j \in DOMAIN data : i < j => data[i].fecha <= data[j].fecha
            /\ Len(data) = V(V(result).count)
            /\ Len(data) <= Len(Matched)
            /\ \A i \in DOMAIN data :
                Cardinality({m \in DOMAIN Matched :
                    Matched[m][FULL_METRIC_MAP[NameOf(args.source)].fecha] > data[i].fecha})
                = Cardinality({j \in DOMAIN data : data[j].fecha > data[i].fecha})

\* C9 witness: a limit cut the matching records and the result spans several days
C9_Witness ==
    /\ Succeeded
    /\ Len(V(V(result).data)) >= 2
    /\ Len(V(V(result).data)) < Len(Matched)
    /\ V(V(result).data)[1].fecha < V(V(result).data)[Len(V(V(result).data))].fecha

\* the requested site ids, as a sequence
RequestedIds == IF impl = 1 THEN <<args.center_id>> ELSE ids_a_procesar(args.center_ids)

\* the site is a row of master_centers whose aliases hold no entry for the source
LacksAlias(id, source) ==
    /\ Truthy(_get_master_center_by_id(id))
    /\ ~Truthy(_get_alias_value(_get_master_center_by_id(id), source))

\* C10: a call that queries a source for a site whose alias mapping has no entry for
\* that source, alone or among several center_ids, does not return a success payload.
C10_MissingAliasReported ==
    (/\ Returned
     /\ NameOf(args.source) \in DOMAIN FULL_METRIC_MAP
     /\ \E i \in DOMAIN RequestedIds : LacksAlias(RequestedIds[i], args.source))
    => ~Succeeded

-----------------------------------------------------------------------------
(* Plan interpreter: placeholders *)

RECURSIVE Join(_)
\* the characters of a str, its tokens run together
Join(tokens) == IF tokens = <<>> THEN "" ELSE Head(tokens) \o Join(Tail(tokens))

\* a dict key: a str is the key its characters spell, whatever its tokens
Key(x) == IF K(x) = "str" THEN Word(Join(V(x))) ELSE x

\* the positions of "." in a str
Dots(s) == {i \in DOMAIN s : s[i] = "."}

\* re.match(r'^\$\{(.*)\}$', s) and re.match(r'^\{\{(.*)\}\}$', s)
MatchesDollar(s) == Len(s) >= 3 /\ s[1] = "$" /\ s[2] = "{" /\ s[Len(s)] = "}"
MatchesBraces(s) == Len(s) >= 4 /\ s[1] = "{" /\ s[2] = "{" /\ s[Len(s) - 1] = "}" /\ s[Len(s)] = "}"

\* the group that matched
placeholder_content(s) == IF MatchesDollar(s) THEN SubSeq(s, 3, Len(s) - 1) ELSE SubSeq(s, 3, Len(s) - 2)

\* content.split('.'): parts[0] and parts[1]
Part0(content) == IF Dots(content) = {} THEN Join(content) ELSE Join(SubSeq(content, 1, Min(Dots(content)) - 1))
Part1(content) ==
    LET d == Min(Dots(content))
        rest == SubSeq(content, d + 1, Len(content))
    IN  IF Dots(rest) = {} THEN Join(rest) ELSE Join(SubSeq(rest, 1, Min(Dots(rest)) - 1))

\* a plausible slip: the whole result of the earlier step, not its field
LookupWholeResult(context, key, field) ==
    IF Word(key) \in DOMAIN context THEN context[Word(key)] ELSE Raise

\* collected_data[key][field] when the key is in collected_data and the field in
\* collected_data[key]; Raise otherwise (the ValueError of the interpreter, or the
\* TypeError of `in` or of the subscript on a result that is not a dict)
Lookup(context, key, field) ==
    IF Word(key) \in DOMAIN context /\ K(context[Word(key)]) = "dict" /\ field \in DOMAIN V(context[Word(key)])
    THEN V(context[Word(key)])[field]
    ELSE Raise

\* question_analizer: what a parameter value becomes; only a str is looked at
Resolve1(x, context) ==
    IF K(x) # "str" \/ ~(MatchesDollar(V(x)) \/ MatchesBraces(V(x))) THEN x
    ELSE LET content == placeholder_content(V(x))
         IN  IF content = <<>> \/ Dots(content) = {} THEN Raise
             ELSE Lookup(context, Part0(content), Part1(content))

\* re.match(r'^\$\{(.*)\.(.*)\}$', s): the first group is greedy, so the key ends
\* at the last "."
MatchesDotted(s) == MatchesDollar(s) /\ Dots(SubSeq(s, 3, Len(s) - 1)) # {}

ResolveItem2(x, context) ==
    IF K(x) # "str" \/ ~MatchesDotted(V(x)) THEN x
    ELSE LET content == SubSeq(V(x), 3, Len(V(x)) - 1)
             d == Max(Dots(content))
         IN  Lookup(context, Join(SubSeq(content, 1, d - 1)), Join(SubSeq(content, d + 1, Len(content))))

\* question_analizer2: a str, or each str of a list
Resolve2(x, context) ==
    IF K(x) = "list"
    THEN IF \E i \in DOMAIN V(x) : ResolveItem2(V(x)[i], context) = Raise THEN Raise
         ELSE ListV([i \in DOMAIN V(x) |-> ResolveItem2(V(x)[i], context)])
    ELSE ResolveItem2(x, context)

\* the parameters after the replacement loop, or Raise when a placeholder fails
ResolveParameters(i, parameters, context) ==
    LET resolved == [k \in DOMAIN parameters |->
                        IF i = 1 THEN Resolve1(parameters[k], context)
                        ELSE Resolve2(parameters[k], context)]
    IN  IF \E k \in DOMAIN parameters : resolved[k] = Raise THEN Raise ELSE resolved

-----------------------------------------------------------------------------
(* Plan interpreter: the attributes of a ToolExecutor and their calls *)

\* the public methods of the class, the same names in both packages
ToolMethods ==
    {"get_center_id_by_name", "get_all_centers", "find_centers_with_data",
     "get_data_range_for_source", "get_timeseries_data", "correlate_timeseries_data",
     "get_monthly_aggregation", "get_extrema_for_metric", "get_monthly_summary_for_all_centers",
     "get_annual_aggregation", "get_last_reading_for_metric", "get_mortality_rate"}

\* the other methods of the class
HelperMethods == {"_get_master_center_by_id", "_get_all_centers", "_get_alias_value", "_build_mongo_filter"}

\* what __init__ sets on the instance
DataAttributes == {"db", "mongo_client", "mongo_db", "collections"}

\* hasattr(executor, tool_name), tool_name a str
hasattr(tool_name) == tool_name \in ToolMethods \cup HelperMethods \cup DataAttributes

NoDefaults == [x \in {} |-> None]
DateAndLimit(limit) == [start_date |-> None, end_date |-> None, limit |-> limit]

\* the keyword parameters of the methods the model calls: [required, defaults]
Signature(i, tool_name) ==
    CASE tool_name = "get_center_id_by_name" -> [required |-> {"center_name"}, defaults |-> NoDefaults]
      [] tool_name = "get_all_centers" -> [required |-> {}, defaults |-> NoDefaults]
      [] tool_name = "get_data_range_for_source" ->
            [required |-> {"center_id", "source"}, defaults |-> NoDefaults]
      [] tool_name = "get_timeseries_data" ->
            [required |-> {IF i = 1 THEN "center_id" ELSE "center_ids", "source", "metrics"},
             defaults |-> DateAndLimit(None)]
      [] tool_name = "correlate_timeseries_data" ->
            [required |-> {"center_id", "primary_source", "primary_metrics",
                           "secondary_source", "secondary_metrics"},
             defaults |-> DateAndLimit(IF i = 1 THEN IntV(100) ELSE None)]
      [] tool_name = "_build_mongo_filter" -> [required |-> {"center_id", "source"}, defaults |-> NoDefaults]
      [] tool_name = "_get_master_center_by_id" -> [required |-> {"center_id"}, defaults |-> NoDefaults]
      [] tool_name = "_get_alias_value" -> [required |-> {"center", "source"}, defaults |-> NoDefaults]
      [] tool_name = "_get_all_centers" -> [required |-> {}, defaults |-> NoDefaults]

\* tool_method(**parameters) can bind: no unexpected keyword and no missing argument
Binds(sig, parameters) ==
    /\ DOMAIN parameters \subseteq sig.required \cup DOMAIN sig.defaults
    /\ sig.required \subseteq DOMAIN parameters

\* the arguments the method's body sees
Bound(sig, parameters) == parameters @@ sig.defaults

\* what the body of the method can return, or Raise, on the bound arguments a
Returns(i, tool_name, a) ==
    CASE tool_name = "get_center_id_by_name" ->
            {get_center_id_by_name(a, env, first) : env \in Envs, first \in FirstRows(a.center_name)}
      [] tool_name = "get_all_centers" ->
            {IF i = 1 THEN get_all_centers(a, env) ELSE get_all_centers2(a, env) : env \in Envs}
      [] tool_name = "get_data_range_for_source" -> {get_data_range_for_source(a, env) : env \in Envs}
      [] tool_name = "get_timeseries_data" ->
            {IF i = 1 THEN get_timeseries_data(a, env) ELSE get_timeseries_data2(a, env) : env \in Envs}
      [] tool_name = "correlate_timeseries_data" ->
            {IF i = 1 THEN correlate_timeseries_data(a, env) ELSE correlate_timeseries_data2(a, env) :
                env \in Envs}
      [] tool_name = "_build_mongo_filter" ->
            {IF SqlRaises(a.center_id, env) THEN Raise ELSE _build_mongo_filter(a.center_id, a.source) :
                env \in Envs}
      [] tool_name = "_get_master_center_by_id" ->
            {IF SqlRaises(a.center_id, env) THEN Raise ELSE _get_master_center_by_id(a.center_id) :
                env \in Envs}
      \* a plan's value is no MasterCenter: center.aliases throws
      [] tool_name = "_get_alias_value" -> {Raise}
      \* the method takes the session where a bound call passes the executor
      [] tool_name = "_get_all_centers" -> {Raise}

\* getattr(executor, tool_name)(**parameters): the results it can have
CallOutcomes(i, tool_name, parameters) ==
    IF tool_name \in DataAttributes THEN {Raise}
    ELSE IF ~Binds(Signature(i, tool_name), parameters) THEN {Raise}
    ELSE Returns(i, tool_name, Bound(Signature(i, tool_name), parameters))

\* whether the call enters the body of a method
Enters(i, tool_name, parameters) ==
    tool_name \notin DataAttributes /\ Binds(Signature(i, tool_name), parameters)

-----------------------------------------------------------------------------
(* Plan interpreter: one iteration of the execution loop *)

\* the plan's list of steps
Steps == V(V(plan).plan)

\* the error payloads of the loop
NotFound(tool_name) == DictV([error |-> StrV(<<"Herramienta no encontrada: ", PyStr(tool_name)>>)])
Unexpected(i, tool_name) ==
    DictV([error |-> StrV(<<IF i = 1 THEN "Ocurrio un error inesperado al ejecutar "
                            ELSE "Fallo la ejecucion de la herramienta ", PyStr(tool_name)>>)])

\* collected_data[key] = value, and the entry of the log of tool calls
Write(key, value) == [key |-> key, value |-> value]
Call(tool_name, a, out, fallback) == [tool |-> tool_name, args |-> a, result |-> out, fallback |-> fallback]

\* tool_method(**parameters) as the log sees it: nothing when no body is entered
Called(i, name, parameters, out) ==
    IF Enters(i, name, parameters)
    THEN <<Call(name, Bound(Signature(i, name), parameters), out, FALSE)>>
    ELSE <<>>

\* result.get("count") == 0
ZeroCount(out) == K(out) = "dict" /\ Get(V(out), "count", None) = IntV(0)

\* f"{result_key}_range_info" and f"{result_key}_available_range"
RangeInfoKey(result_key) == Word(PyStr(result_key) \o "_range_info")
AvailableRangeKey(result_key) == Word(PyStr(result_key) \o "_available_range")

\* question_analizer: the try block of an iteration and its except clause; the
\* set of [w: the assignments to collected_data, c: the tool calls] it can make.
\* The fallback calls executor.get_data_range_summary, which no ToolExecutor has:
\* the AttributeError lands in the except clause.
TryBlock1(tool_name, parameters, result_key, context) ==
    LET resolved == ResolveParameters(1, parameters, context)
        name == Join(V(tool_name))
        failed == <<Write(result_key, Unexpected(1, tool_name))>>
    IN  IF resolved = Raise \/ K(tool_name) # "str" THEN {[w |-> failed, c |-> <<>>]}
        ELSE IF ~hasattr(name) THEN {[w |-> <<Write(result_key, NotFound(tool_name))>>, c |-> <<>>]}
        ELSE {IF out = Raise THEN [w |-> failed, c |-> Called(1, name, resolved, out)]
              ELSE IF name = "get_timeseries_data" /\ ZeroCount(out)
                   THEN [w |-> <<Write(result_key, out)>> \o failed, c |-> Called(1, name, resolved, out)]
              ELSE [w |-> <<Write(result_key, out)>>, c |-> Called(1, name, resolved, out)] :
                out \in CallOutcomes(1, name, resolved)}

\* question_analizer2: parameters.get('source') or parameters.get('primary_source', 'clima')
FallbackSource(parameters) ==
    IF Truthy(Get(parameters, "source", None)) THEN parameters["source"]
    ELSE Get(parameters, "primary_source", Word("clima"))

is_data_tool(name) == name \in {"get_timeseries_data", "correlate_timeseries_data", "get_monthly_aggregation"}

\* question_analizer2: the writes and calls that follow collected_data[result_key] = out
Fallback2(name, parameters, result_key, out, failed) ==
    IF ~(is_data_tool(name) /\ ZeroCount(out) /\ "center_id" \in DOMAIN parameters)
         \/ ~Truthy(FallbackSource(parameters))
    THEN {[w |-> <<>>, c |-> <<>>]}
    ELSE LET a == [center_id |-> parameters["center_id"], source |-> FallbackSource(parameters)]
         IN  {IF range_info = Raise
              THEN [w |-> failed, c |-> <<Call("get_data_range_for_source", a, range_info, TRUE)>>]
              ELSE [w |-> <<Write(AvailableRangeKey(result_key), range_info)>>,
                    c |-> <<Call("get_data_range_for_source", a, range_info, TRUE)>>] :
                range_info \in Returns(2, "get_data_range_for_source", a)}

\* question_analizer2: the try block of an iteration and its except clause
TryBlock2(tool_name, parameters, result_key, context) ==
    LET resolved == ResolveParameters(2, parameters, context)
        name == Join(V(tool_name))
        failed == <<Write(result_key, Unexpected(2, tool_name))>>
    IN  IF resolved = Raise \/ K(tool_name) # "str" THEN {[w |-> failed, c |-> <<>>]}
        ELSE IF hasattr(name)
        THEN UNION {IF out = Raise THEN {[w |-> failed, c |-> Called(2, name, resolved, out)]}
                    ELSE {[w |-> <<Write(result_key, out)>> \o f.w,
                           c |-> Called(2, name, resolved, out) \o f.c] :
                            f \in Fallback2(name, resolved, result_key, out, failed)} :
                out \in CallOutcomes(2, name, resolved)}
        ELSE IF name = "direct_answer"
        THEN {[w |-> <<Write(result_key, DictV([answer |->
                        Get(resolved, "response", Word("No pude procesar tu solicitud."))]))>>,
               c |-> <<>>]}
        ELSE {[w |-> failed, c |-> <<>>]}

RECURSIVE Assign(_, _)
\* the assignments made to collected_data one after the other
Assign(context, w) == IF w = <<>> THEN context ELSE Assign(Put(context, Head(w).key, Head(w).value), Tail(w))

-----------------------------------------------------------------------------
(* The plans the planner hands to the interpreter *)

MaxPlanLen == 3

Step(tool, parameters, key) ==
    DictV([tool |-> Word(tool), parameters |-> DictV(parameters), store_result_as |-> Word(key)])

\* "${key.field}" and "{{key.field}}"
Dollar(key, field) == StrV(<<"$", "{", key, ".", field, "}">>)
Braces(key, field) == StrV(<<"{", "{", key, ".", field, "}", "}">>)

RangeOf(center_id) == [center_id |-> center_id, source |-> Word("clima")]

Correlation(center_id) ==
    [center_id |-> center_id,
     primary_source |-> Word("clima"), primary_metrics |-> Metric("temperatura_maxima"),
     secondary_source |-> Word("alimentacion"), secondary_metrics |-> Metric("alimento_total"),
     start_date |-> Word(DateStr(LastDay)), end_date |-> Word(DateStr(LastDay))]

\* the steps both packages are given
CommonSteps ==
    {Step("get_center_id_by_name", [center_name |-> Word("pirquen")], "a"),
     Step("get_center_id_by_name", [center_name |-> Word("polocuhe")], "a"),
     DictV([tool |-> Word("get_all_centers"), store_result_as |-> Word("b")]),
     DictV([tool |-> Word("get_all_centers"), parameters |-> None, store_result_as |-> Word("b")]),
     DictV([parameters |-> DictV(RangeOf(Dollar("a", "center_id"))), store_result_as |-> Word("b")]),
     Step("direct_answer", [response |-> Word("hola")], "b"),
     Step("send_email", EmptyDict, "b"),
     Step("_build_mongo_filter", RangeOf(IntV(1)), "b"),
     Step("get_data_range_for_source", RangeOf(Dollar("a", "center_id")), "b"),
     Step("get_data_range_for_source", RangeOf(Braces("a", "center_id")), "b"),
     Step("get_data_range_for_source", RangeOf(Dollar("a", "nope")), "b"),
     Step("correlate_timeseries_data", Correlation(Dollar("a", "center_id")), "b")}

Timeseries(site) == site @@ [source |-> Word("clima"), metrics |-> Metric("temperatura_maxima")]

\* the steps written for one package's get_timeseries_data
OwnSteps(i) ==
    IF i = 1
    THEN {Step("get_timeseries_data", Timeseries([center_id |-> Dollar("a", "center_id")]), "b"),
          Step("get_timeseries_data", [center_id |-> Dollar("a", "center_id"), source |-> Word("clima"),
                                       metrics |-> ListV(<<Dollar("a", "center_name")>>)], "b")}
    ELSE {Step("get_timeseries_data", Timeseries([center_ids |-> ListV(<<Dollar("a", "center_id")>>)]), "b")}

StepPool(i) == CommonSteps \cup OwnSteps(i)

RECURSIVE SeqsUpTo(_, _)
\* the sequences over S of length at most n
SeqsUpTo(S, n) ==
    IF n = 0 THEN {<<>>}
    ELSE LET shorter == SeqsUpTo(S, n - 1)
         IN  shorter \cup {Append(q, x) : q \in shorter, x \in S}

\* create_execution_plan: a plan, or what it returns when the planner's output is
\* no JSON, or JSON without a plan
PlannerOutputs(i) ==
    {DictV([plan |-> ListV(q)]) : q \in SeqsUpTo(StepPool(i), MaxPlanLen)}
    \cup {DictV([error |-> Word("Fallo al generar el plan"), details |-> Word("detalle")]),
          DictV(EmptyDict), DictV([plan |-> None])}

\* the stores of a request: site 1 has weather records on days 1 and 2 and feeding
\* records from day 2 on, site 2 has none
AlimDoc(alias, day) == [Centro |-> alias, Fecha |-> Midnight(day), Alimentos |-> 100 + day]
RequestStore ==
    [clima |-> <<ClimaDoc("PIR", 2), ClimaDoc("PIR", 1)>>,
     alimentacion |-> [d \in 1..(LastDay - 1) |-> AlimDoc("Pirquen", d + 1)]]

-----------------------------------------------------------------------------
(* analyze_question_endpoint: Spec *)

Init ==
    /\ impl \in {1, 2}
    /\ centers = FixtureCenters
    /\ store = RequestStore
    /\ pc = "planning"
    /\ plan \in PlannerOutputs(impl)
    /\ pos = 0
    /\ collected_data = EmptyDict
    /\ calls = <<>>
    /\ writes = <<>>
    /\ args = None
    /\ result = None
    /\ user_wants_chart = FALSE
    /\ synth = None
    /\ response = None

\* a plausible slip: the checks on the planner's output left out, the loop
\* running over plan.get("plan", [])
ReceivePlan1Unchecked ==
    /\ pc = "planning" /\ impl = 1
    /\ pc' = IF K(Get(V(plan), "plan", None)) = "list" THEN "exec" ELSE "executed"
    /\ pos' = 1
    /\ UNCHANGED <<response, user_wants_chart, synth, impl, centers, store, plan, collected_data, calls, writes, args, result>>

\* FinalResponse(answer=..., chart=..., debug_context=...); chart and
\* debug_context default to None
FinalResponse(answer, chart, debug_context) ==
    [answer |-> answer, chart |-> chart, debug_context |-> debug_context]

\* plan.get("plan") and plan["plan"][0].get("tool") == "direct_answer"
DirectAnswerFirst ==
    /\ Truthy(Get(V(plan), "plan", None))
    /\ Get(V(Steps[1]), "tool", None) = Word("direct_answer")

\* plan["plan"][0].get("response", ...): the text is read from the step itself
direct_response_text ==
    Get(V(Steps[1]), "response", Word("No pude procesar tu saludo, intenta de nuevo."))

\* question_analizer: the checks between planning and the loop; a plan that
\* begins with direct_answer is answered at once
ReceivePlan1 ==
    /\ pc = "planning" /\ impl = 1
    /\ pc' = IF ~Truthy(plan) \/ "error" \in DOMAIN V(plan) THEN "rejected"
             ELSE IF DirectAnswerFirst
                  THEN IF K(direct_response_text) = "str" THEN "answered" ELSE "crashed"
             ELSE IF Get(V(plan), "plan", None) = None THEN "rejected"
             ELSE "exec"
    /\ response' = IF Truthy(plan) /\ "error" \notin DOMAIN V(plan) /\ DirectAnswerFirst
                       /\ K(direct_response_text) = "str"
                    THEN FinalResponse(direct_response_text, None, None)
                    ELSE response
    /\ pos' = 1
    /\ UNCHANGED <<user_wants_chart, synth, impl, centers, store, plan, collected_data, calls, writes, args, result>>

\* question_analizer2: a plan without the key "plan" is refused; the loop runs over
\* plan.get("plan", []), which throws on null
ReceivePlan2 ==
    /\ pc = "planning" /\ impl = 2
    /\ pc' = IF ~Truthy(plan) \/ "plan" \notin DOMAIN V(plan) THEN "rejected"
             ELSE IF K(V(plan).plan) # "list" THEN "crashed"
             ELSE "exec"
    /\ pos' = 1
    /\ UNCHANGED <<response, user_wants_chart, synth, impl, centers, store, plan, collected_data, calls, writes, args, result>>

\* the fields of the step at pos, as step.get reads them
tool_name == Get(V(Steps[pos]), "tool", None)
parameters == Get(V(Steps[pos]), "parameters", DictV(EmptyDict))
result_key == Key(Get(V(Steps[pos]), "store_result_as", None))

\* a plausible slip: the replacement loop writes into the step's own dict
WrittenInPlace(own, resolved) == IF resolved = Raise THEN own ELSE DictV(resolved)

\* the step's own parameters after the replacement loop: the loop writes into
\* step.get("parameters", {}).copy(), another dict, and question_analizer2 puts
\* the items of a list into a new list, so the step keeps what it held
StepParametersAfter(own, resolved) == own

\* the plan after the iteration at pos
PlanAfterStep(i) ==
    IF K(parameters) # "dict" \/ "parameters" \notin DOMAIN V(Steps[pos]) THEN plan
    ELSE IF i = 2 /\ (~Truthy(tool_name) \/ ~Truthy(result_key)) THEN plan
    ELSE LET after == StepParametersAfter(parameters,
                          ResolveParameters(i, V(parameters), collected_data))
             step == DictV([V(Steps[pos]) EXCEPT !.parameters = after])
         IN  DictV([V(plan) EXCEPT !.plan = ListV([Steps EXCEPT ![pos] = step])])

\* the step's effect e: its assignments and calls go into the context and the logs
Record(e) ==
    /\ collected_data' = Assign(collected_data, e.w)
    /\ writes' = writes \o [n \in DOMAIN e.w |-> e.w[n] @@ [step |-> pos]]
    /\ calls' = calls \o [n \in DOMAIN e.c |-> e.c[n] @@ [step |-> pos]]

\* question_analizer: one iteration of the loop.  step.get("parameters", {}).copy()
\* stands before the try: a parameters value with no copy() ends the request with
\* the exception; a list has copy() and fails at .items(), inside the try.
ExecuteStep1 ==
    /\ pc = "exec" /\ impl = 1 /\ pos <= Len(Steps)
    /\ IF K(parameters) \notin {"dict", "list"}
       THEN /\ pc' = "crashed"
            /\ UNCHANGED <<pos, collected_data, calls, writes>>
       ELSE /\ \E e \in IF K(parameters) = "list"
                        THEN {[w |-> <<Write(result_key, Unexpected(1, tool_name))>>, c |-> <<>>]}
                        ELSE TryBlock1(tool_name, V(parameters), result_key, collected_data) :
                    Record(e)
            /\ pos' = pos + 1
            /\ pc' = pc
    /\ plan' = PlanAfterStep(1)
    /\ UNCHANGED <<response, user_wants_chart, synth, impl, centers, store, args, result>>

\* question_analizer2: one iteration of the loop; a step without a tool name or a
\* result key is passed over
ExecuteStep2 ==
    /\ pc = "exec" /\ impl = 2 /\ pos <= Len(Steps)
    /\ IF K(parameters) \notin {"dict", "list"}
       THEN /\ pc' = "crashed"
            /\ UNCHANGED <<pos, collected_data, calls, writes>>
       ELSE IF ~Truthy(tool_name) \/ ~Truthy(result_key)
       THEN /\ pos' = pos + 1
            /\ UNCHANGED <<pc, collected_data, calls, writes>>
       ELSE /\ \E e \in IF K(parameters) = "list"
                        THEN {[w |-> <<Write(result_key, Unexpected(2, tool_name))>>, c |-> <<>>]}
                        ELSE TryBlock2(tool_name, V(parameters), result_key, collected_data) :
                    Record(e)
            /\ pos' = pos + 1
            /\ pc' = pc
    /\ plan' = PlanAfterStep(2)
    /\ UNCHANGED <<response, user_wants_chart, synth, impl, centers, store, args, result>>

\* the loop has gone through every step
FinishLoop ==
    /\ pc = "exec" /\ pos > Len(Steps)
    /\ pc' = "executed"
    /\ UNCHANGED <<response, user_wants_chart, synth, impl, centers, store, plan, pos, collected_data, calls, writes, args, result>>

Next == ReceivePlan1 \/ ReceivePlan2 \/ ExecuteStep1 \/ ExecuteStep2 \/ FinishLoop

Spec == Init /\ [][Next]_vars

-----------------------------------------------------------------------------
(* Properties of the execution loop, under Spec *)

\* the planner gave a list of steps and the request reached the loop
InLoop == pc \in {"exec", "executed", "crashed"} /\ K(Get(V(plan), "plan", None)) = "list"

StepTool(n) == Get(V(Steps[n]), "tool", None)
StepParameters(n) == Get(V(Steps[n]), "parameters", DictV(EmptyDict))
StepKey(n) == Key(Get(V(Steps[n]), "store_result_as", None))

\* the steps the loop has gone through
Done == IF InLoop THEN {n \in DOMAIN Steps : n < pos} ELSE {}

\* the loop does not pass over the step
Processed(n) == impl = 1 \/ (Truthy(StepTool(n)) /\ Truthy(StepKey(n)))

\* the tool calls a step made for its own tool, and the assignments it made
CallsOf(n) == {c \in Range(calls) : c.step = n /\ ~c.fallback}
WritesOf(n) == {w \in Range(writes) : w.step = n}

\* the context as it was when step n began, and when it ended
ContextBefore(n) == Assign(EmptyDict, SelectSeq(writes, LAMBDA w : w.step < n))
ContextAfter(n) == Assign(EmptyDict, SelectSeq(writes, LAMBDA w : w.step <= n))

\* an error payload went under the step's result key and no tool was called
ReportedWithoutCall(n) ==
    /\ CallsOf(n) = {}
    /\ \E w \in WritesOf(n) : w.key = StepKey(n) /\ IsError(w.value)
    /\ IsError(ContextAfter(n)[StepKey(n)])

\* C1: no exception escapes the loop of the plan's steps: the request never ends
\* with an exception at a step, whatever the step's tool, parameters and outcome.
C1_NoExceptionEscapes == ~(InLoop /\ pc = "crashed")

\* the value a placeholder "${key.field}" or "{{key.field}}" names, key and field
\* being names
IsName(t) == t \notin {"$", "{", "}", "."}
DollarRef(x) ==
    /\ K(x) = "str" /\ Len(V(x)) = 6
    /\ V(x)[1] = "$" /\ V(x)[2] = "{" /\ IsName(V(x)[3]) /\ V(x)[4] = "." /\ IsName(V(x)[5])
    /\ V(x)[6] = "}"
BracesRef(x) ==
    /\ K(x) = "str" /\ Len(V(x)) = 7
    /\ V(x)[1] = "{" /\ V(x)[2] = "{" /\ IsName(V(x)[3]) /\ V(x)[4] = "." /\ IsName(V(x)[5])
    /\ V(x)[6] = "}" /\ V(x)[7] = "}"
Resolvable(x, context) ==
    /\ Word(V(x)[3]) \in DOMAIN context
    /\ K(context[Word(V(x)[3])]) = "dict"
    /\ V(x)[5] \in DOMAIN V(context[Word(V(x)[3])])
Referred(x, context) == V(context[Word(V(x)[3])])[V(x)[5]]

\* the public methods of the ToolExecutor and the planner's direct_answer
ToolOperations == ToolMethods \cup {"direct_answer"}
NamesOperation(t) == K(t) = "str" /\ Join(V(t)) \in ToolOperations

\* C3: a step whose tool name is none of the tool operations invokes nothing on the
\* ToolExecutor and leaves an error payload under its result key.
C3_UnknownToolReported ==
    \A n \in Done : (K(StepTool(n)) = "str" /\ ~NamesOperation(StepTool(n))) => ReportedWithoutCall(n)

\* the scalar parameters of step n that are "${K.F}" placeholders
DollarParameters(n) ==
    IF K(StepParameters(n)) = "dict"
    THEN {p \in DOMAIN V(StepParameters(n)) : DollarRef(V(StepParameters(n))[p])}
    ELSE {}

\* a parameter value with nothing to resolve in it
Plain(x) ==
    /\ K(x) = "str" => \A i \in DOMAIN V(x) : IsName(V(x)[i])
    /\ K(x) = "list" => \A i \in DOMAIN V(x) :
            K(V(x)[i]) = "str" => \A j \in DOMAIN V(V(x)[i]) : IsName(V(V(x)[i])[j])

\* the step's tool is a method the plan's parameter names fit, and every parameter
\* is plain or a "${K.F}" placeholder that the context resolves
Callable(n) ==
    /\ K(StepTool(n)) = "str" /\ K(StepParameters(n)) = "dict"
    /\ Join(V(StepTool(n))) \in {"get_center_id_by_name", "get_all_centers", "get_data_range_for_source",
                                 "get_timeseries_data", "correlate_timeseries_data"}
    /\ Binds(Signature(impl, Join(V(StepTool(n)))), V(StepParameters(n)))
    /\ \A p \in DOMAIN V(StepParameters(n)) :
            \/ Plain(V(StepParameters(n))[p])
            \/ p \in DollarParameters(n) /\ Resolvable(V(StepParameters(n))[p], ContextBefore(n))

\* C4: for a step the loop does not pass over, with a scalar parameter "${K.F}", K and
\* F names.  If K is a key of the context and F a field of context[K], every call of
\* the step's tool gets context[K][F] for the parameter, and the call is made when
\* nothing else stops the step.  If K is missing or F is absent, the tool is not called
\* and the step, and no other, leaves an error payload under its own result key.
C4_ScalarPlaceholder ==
    \A n \in Done : \A p \in DollarParameters(n) :
        LET x == V(StepParameters(n))[p]
            context == ContextBefore(n)
        IN  Processed(n) =>
                IF Resolvable(x, context)
                THEN /\ \A c \in CallsOf(n) : c.args[p] = Referred(x, context)
                     /\ Callable(n) => CallsOf(n) # {}
                ELSE /\ ReportedWithoutCall(n)
                     /\ \A w \in WritesOf(n) : w.key = StepKey(n)

\* C4 witness: one step called its tool with the value of a placeholder, another
\* step's placeholder failed, and a step ran after the failed one
C4_Witness ==
    /\ pc = "executed"
    /\ \E n \in Done : \E p \in DollarParameters(n) :
            /\ Resolvable(V(StepParameters(n))[p], ContextBefore(n))
            /\ \E c \in CallsOf(n) : c.args[p] = Referred(V(StepParameters(n))[p], ContextBefore(n))
    /\ \E n \in Done : \E p \in DollarParameters(n) :
            /\ Word(V(V(StepParameters(n))[p])[3]) \in DOMAIN ContextBefore(n)
            /\ ~Resolvable(V(StepParameters(n))[p], ContextBefore(n))
            /\ ReportedWithoutCall(n)
            /\ CallsOf(n + 1) # {}

\* what a parameter value stands for when either syntax is resolved, in a scalar
\* and in the elements of a list
Meant(x, context) ==
    IF (DollarRef(x) \/ BracesRef(x)) /\ Resolvable(x, context) THEN Referred(x, context) ELSE x
MeantAll(x, context) ==
    IF K(x) = "list" THEN ListV([i \in DOMAIN V(x) |-> Meant(V(x)[i], context)]) ELSE Meant(x, context)

\* C5: "${K.F}" and "{{K.F}}" are both resolved, to the same value, as a scalar
\* parameter and as an element of a list parameter: a tool is never called with a
\* placeholder the context resolves still standing in its arguments.
C5_BothSyntaxesResolved ==
    \A n \in Done : \A c \in CallsOf(n) : \A p \in DOMAIN V(StepParameters(n)) :
        c.args[p] = MeantAll(V(StepParameters(n))[p], ContextBefore(n))

\* the tools whose results are time series
TimeSeriesShaped == {"get_timeseries_data", "correlate_timeseries_data", "get_monthly_aggregation"}

\* C6: once a time-series-shaped step whose tool returned count == 0 has finished, the
\* context holds the zero-count result under the step's result key and a range lookup
\* under "<result_key>_range_info" or "<result_key>_available_range".
C6_ZeroCountFallback ==
    \A n \in Done : \A c \in CallsOf(n) :
        (c.tool \in TimeSeriesShaped /\ ZeroCount(c.result)) =>
            /\ StepKey(n) \in DOMAIN ContextAfter(n)
            /\ ContextAfter(n)[StepKey(n)] = c.result
            /\ \/ RangeInfoKey(StepKey(n)) \in DOMAIN ContextAfter(n)
               \/ AvailableRangeKey(StepKey(n)) \in DOMAIN ContextAfter(n)

\* the steps whose fallback stored a range lookup
FellBack == {c.step : c \in {d \in Range(calls) : d.fallback /\ d.result # Raise}}

\* the keys the steps stored under: a result key, or the key of a fallback
KeysOf(n) ==
    (IF Processed(n) THEN {StepKey(n)} ELSE {})
    \cup (IF n \in FellBack THEN {AvailableRangeKey(StepKey(n))} ELSE {})

\* the last assignment made to a key
LastWrite(key) == writes[Max({n \in DOMAIN writes : writes[n].key = key})]

\* C2 as stated: after the loop the keys of the context are exactly the result keys
\* of the plan's steps, each holding what the last step that used it stored.
C2_ExactlyTheResultKeys ==
    pc = "executed" =>
        /\ DOMAIN collected_data = {StepKey(n) : n \in DOMAIN Steps}
        /\ \A key \in DOMAIN collected_data :
            /\ collected_data[key] = LastWrite(key).value
            /\ LastWrite(key).step = Max({n \in DOMAIN Steps : StepKey(n) = key})

\* C2 amended: after the loop the keys of the context are the result keys of the steps
\* the loop did not pass over, and "<result_key>_available_range" for each step whose
\* fallback stored a range lookup; each key holds the value last assigned to it, and
\* the last step in plan order that stores under the key assigned it.
C2_ResultAndFallbackKeys ==
    pc = "executed" =>
        /\ DOMAIN collected_data = UNION {KeysOf(n) : n \in DOMAIN Steps}
        /\ \A key \in DOMAIN collected_data :
            /\ collected_data[key] = LastWrite(key).value
            /\ LastWrite(key).step = Max({n \in DOMAIN Steps : key \in KeysOf(n)})

\* C2 witness: a plan ran in which two steps stored different values under one key
\* and a fallback added its key
C2_Witness ==
    /\ pc = "executed"
    /\ FellBack # {}
    /\ \E i, j \in DOMAIN writes :
            i < j /\ writes[i].key = writes[j].key /\ writes[i].step < writes[j].step
            /\ writes[i].value # writes[j].value /\ ~IsError(writes[j].value)

-----------------------------------------------------------------------------
(* Direct calls of correlate_timeseries_data: SpecCorrelate *)

\* the days of a set, oldest first
DaysSeq(days) == SelectSeq([d \in 1..LastDay |-> d], LAMBDA d : d \in days)

\* the stores of a correlation: weather records of PIR and feeding records of
\* Pirquen, each on any set of days
CorrelateStores ==
    {[clima |-> MapSeq(DaysSeq(A), LAMBDA d : ClimaDoc("PIR", d)),
      alimentacion |-> MapSeq(DaysSeq(B), LAMBDA d : AlimDoc("Pirquen", d))] :
        A \in SUBSET (1..LastDay), B \in SUBSET (1..LastDay)}

\* the bound arguments of a call, by package (question_analizer's limit defaults to 100)
CorrelateArgs(i) ==
    [center_id : {IntV(1), IntV(3), IntV(UnknownId)},
     primary_source : {Word("clima")}, primary_metrics : {Metric("temperatura_maxima")},
     secondary_source : {Word("alimentacion")}, secondary_metrics : {Metric("alimento_total")},
     start_date : {None, Word(DateStr(1))}, end_date : {None, Word(DateStr(LastDay))},
     limit : {IF i = 1 THEN IntV(100) ELSE None, IntV(1)}]

InitCorrelate ==
    /\ impl \in {1, 2}
    /\ centers = FixtureCenters
    /\ store \in CorrelateStores
    /\ pc = "call"
    /\ args \in CorrelateArgs(impl)
    /\ result = None
    /\ Idle

\* the tool is called and returns, or throws
CallCorrelate ==
    /\ pc = "call"
    /\ \E env \in Envs :
        result' = IF impl = 1 THEN correlate_timeseries_data(args, env)
                  ELSE correlate_timeseries_data2(args, env)
    /\ pc' = "returned"
    /\ UNCHANGED <<response, user_wants_chart, synth, impl, centers, store, plan, pos, collected_data, calls, writes, args>>

NextCorrelate == CallCorrelate

SpecCorrelate == InitCorrelate /\ [][NextCorrelate]_vars

-----------------------------------------------------------------------------
(* Properties of correlate_timeseries_data, under SpecCorrelate *)

\* the days on which the store holds a record of the call's site in a source
DaysOf(source) ==
    LET center == _get_master_center_by_id(args.center_id)
        alias == IF Truthy(center) THEN _get_alias_value(center, source) ELSE None
        config == FULL_METRIC_MAP[NameOf(source)]
    IN  IF ~Truthy(alias) THEN {}
        ELSE {DayOf(store[NameOf(source)][n][config.fecha]) :
                n \in {m \in DOMAIN store[NameOf(source)] :
                          store[NameOf(source)][m][config.center_name_field] = NameOf(alias)}}

\* the intersection of the two sources' ranges: its first and last day
FirstCommon == Max({Min(DaysOf(args.primary_source)), Min(DaysOf(args.secondary_source))})
LastCommon == Min({Max(DaysOf(args.primary_source)), Max(DaysOf(args.secondary_source))})

BothHaveData == DaysOf(args.primary_source) # {} /\ DaysOf(args.secondary_source) # {}

\* question_analizer2 was called with neither date
AutomaticRange == impl = 2 /\ Returned /\ ~Truthy(args.start_date) /\ ~Truthy(args.end_date)

-----------------------------------------------------------------------------
(* merge_timeseries_data_for_chart of question_analizer *)

\* key.split('_')[-1] on the result keys the model uses
LastPartTable == [clima_pirquen |-> "pirquen", clima_polocuhe |-> "polocuhe",
                  pirquen_clima |-> "clima", polocuhe_clima |-> "clima", pirquen_id |-> "id"]
LastPart(w) == IF w \in DOMAIN LastPartTable THEN LastPartTable[w] ELSE w

\* str.title() on the names the model uses
TitleTable == [pirquen |-> "Pirquen", polocuhe |-> "Polocuhe", clima |-> "Clima", id |-> "Id",
               a |-> "A", b |-> "B"]
title(w) == IF w \in DOMAIN TitleTable THEN TitleTable[w] ELSE w

\* metric_name.replace('_', ' ').title()
MetricDisplayTable == [temperatura_maxima |-> "Temperatura Maxima",
                       temperatura_minima |-> "Temperatura Minima"]
metric_display_name(m) == IF m \in DOMAIN MetricDisplayTable THEN MetricDisplayTable[m] ELSE title(m)

\* the order of sorted() on the strings the model uses
Alphabetical == <<"A", "B", "Clima", "Id", "Pirquen", "Polocuhe", "a", "b", "clima_pirquen",
                  "clima_polocuhe", "pirquen_clima", "pirquen_id", "polocuhe_clima",
                  "temperatura_maxima", "temperatura_minima">>
sorted_names(S) == SelectSeq(Alphabetical, LAMBDA w : w \in S)

RECURSIVE sorted_instants(_)
\* sorted(list(set(...))) on datetimes
sorted_instants(S) == IF S = {} THEN <<>> ELSE <<Min(S)>> \o sorted_instants(S \ {Min(S)})

\* ts.strftime('%Y-%m-%d %H:%M:%S'): the date and the whole seconds of the time of day
strftime_seconds(t) == StrV(<<DateStr(DayOf(t)), " 00:00:00">>)

\* [step["store_result_as"] for step in plan.get("plan", []) if step.get("tool") == "get_timeseries_data"]
timeseries_steps(p) ==
    SelectSeq(V(Get(V(p), "plan", ListV(<<>>))),
              LAMBDA step : Key(Get(V(step), "tool", None)) = Word("get_timeseries_data"))
timeseries_keys(p) == MapSeq(timeseries_steps(p), LAMBDA step : Key(V(step).store_result_as))

\* step["store_result_as"] throws when a get_timeseries_data step has no such key
KeyMissing(p) == \E n \in DOMAIN timeseries_steps(p) : "store_result_as" \notin DOMAIN V(timeseries_steps(p)[n])

\* result = collected_data.get(key, {}); the items of result["data"] that hold a
\* "fecha", none when `not result or not result.get("data")`
ItemsOf(context, key) ==
    LET res == Get(context, key, DictV(EmptyDict))
        data == IF K(res) = "dict" THEN Get(V(res), "data", None) ELSE None
    IN  IF K(data) = "list" THEN SelectSeq(V(data), LAMBDA item : "fecha" \in DOMAIN item) ELSE <<>>

\* the metrics for which the result under the key gives a point: every field
\* but "fecha" of an item
MetricsOf(context, key) ==
    UNION {DOMAIN ItemsOf(context, key)[n] \ {"fecha"} : n \in DOMAIN ItemsOf(context, key)}

\* the timestamps of the points of the result under the key
InstantsOf(context, key) ==
    {ItemsOf(context, key)[n].fecha : n \in {m \in DOMAIN ItemsOf(context, key) :
                                              DOMAIN ItemsOf(context, key)[m] # {"fecha"}}}

\* center_names_map[key]: the name of "<alias>_id" in the context when there is
\* one, the capitalised last part of the key otherwise
center_display_name(context, key) ==
    LET center_alias == LastPart(NameOf(key))
        center_info_key == Word(center_alias \o "_id")
    IN  IF center_info_key \in DOMAIN context
        THEN IF K(context[center_info_key]) # "dict" THEN NameOf(key)
             ELSE PyStr(Key(Get(V(context[center_info_key]), "center_name", Word(title(center_alias)))))
        ELSE title(center_alias)

\* points_for_this_series.get(ts): the value of the last point of the series at
\* the timestamp, None when it has none
PointAt(items, metric, ts) ==
    LET at == {n \in DOMAIN items : items[n].fecha = ts /\ metric \in DOMAIN items[n]}
    IN  IF at = {} THEN None ELSE IntV(items[Max(at)][metric])

\* one entry of "series"
Series(context, key, metric, unique_timestamps) ==
    DictV([name |-> StrV(<<metric_display_name(metric), " (", center_display_name(context, key), ")">>),
           data |-> ListV([n \in DOMAIN unique_timestamps |->
                              PointAt(ItemsOf(context, key), metric, unique_timestamps[n])])])

RECURSIVE Flatten(_)
Flatten(ss) == IF ss = <<>> THEN <<>> ELSE Head(ss) \o Flatten(Tail(ss))

RECURSIVE Dedup(_)
\* the items of a sequence in the order of their first appearance
Dedup(q) ==
    IF q = <<>> THEN <<>>
    ELSE LET front == Dedup(SubSeq(q, 1, Len(q) - 1))
         IN  IF q[Len(q)] \in Range(front) THEN front ELSE Append(front, q[Len(q)])

RECURSIVE JoinComma(_)
\* ", ".join(names)
JoinComma(names) ==
    IF names = <<>> THEN <<>>
    ELSE IF Len(names) = 1 THEN names
    ELSE <<Head(names), ", ">> \o JoinComma(Tail(names))

\* unique_series_defs: sorted(list(set((origin_key, metric_name))))
unique_series_defs(context, keys) ==
    Flatten(MapSeq(sorted_names({NameOf(k) : k \in keys}), LAMBDA k :
        MapSeq(sorted_names(MetricsOf(context, Word(k))), LAMBDA m : [origin_key |-> Word(k), metric_name |-> m])))

\* the chart of the results under the keys
merged_chart_data(context, keys) ==
    LET unique_timestamps == sorted_instants(UNION {InstantsOf(context, k) : k \in keys})
        defs == unique_series_defs(context, keys)
        metric_names == Dedup(MapSeq(defs, LAMBDA sd : metric_display_name(sd.metric_name)))
        center_names == sorted_names({center_display_name(context, defs[n].origin_key) : n \in DOMAIN defs})
    IN  DictV([type |-> Word("line"),
               title |-> StrV(<<"Comparativa de ">> \o JoinComma(metric_names) \o <<" en ">>
                              \o JoinComma(center_names)),
               xAxis |-> ListV(MapSeq(unique_timestamps, strftime_seconds)),
               series |-> ListV(MapSeq(defs, LAMBDA sd :
                              Series(context, sd.origin_key, sd.metric_name, unique_timestamps)))])

\* the context after the merge: unchanged when no get_timeseries_data result
\* gives a point, else the chart added and every get_timeseries_data key deleted
\* the get_timeseries_data keys whose result gives a point
Charted(context, p) == {k \in Range(timeseries_keys(p)) : MetricsOf(context, k) # {}}

\* the merge throws: a get_timeseries_data step without a key, or points under
\* the key None, whose name cannot be joined into the title
MergeRaises(context, p) ==
    KeyMissing(p) \/ \E k \in Charted(context, p) : K(k) # "str"

\* a plausible slip: the raw entries removed also when no chart is made
MergeDropsKeys(context, p) ==
    LET merged == IF Charted(context, p) = {} THEN context
                  ELSE Put(context, Word("merged_chart_data"),
                           merged_chart_data(context, Charted(context, p)))
    IN  [k \in DOMAIN merged \ Range(timeseries_keys(p)) |-> merged[k]]

\* a plausible slip: a chart added also when no result gives a point
MergeAlways(context, p) ==
    LET merged == Put(context, Word("merged_chart_data"),
                      merged_chart_data(context, Charted(context, p)))
    IN  [k \in DOMAIN merged \ Range(timeseries_keys(p)) |-> merged[k]]

\* a plausible slip: the chart added and the raw entries left in the context
MergeWithoutCleanup(context, p) ==
    IF Charted(context, p) = {} THEN context
    ELSE Put(context, Word("merged_chart_data"), merged_chart_data(context, Charted(context, p)))

merge_timeseries_data_for_chart(context, p) ==
    IF Charted(context, p) = {} THEN context
    ELSE LET merged == Put(context, Word("merged_chart_data"),
                           merged_chart_data(context, Charted(context, p)))
         IN  [k \in DOMAIN merged \ Range(timeseries_keys(p)) |-> merged[k]]

-----------------------------------------------------------------------------
(* analyze_question_endpoint from the plan to the synthesis: SpecAnswer *)

\* the longest plan of a chart request
MaxChartSteps == 2

\* weather records: half a second after midnight, a second value at the same
\* instant, and a record without the temperature field
HalfPast(doc) == [doc EXCEPT !.FECHA = @ + 1]
Second(doc) == [doc EXCEPT !.TEMP_MAX_C = @ + 20]
Bare(doc) == [NAME |-> doc.NAME, FECHA |-> doc.FECHA]

ChartStores ==
    {[clima |-> p \o q, alimentacion |-> <<>>] :
        p \in {<<ClimaDoc("PIR", 1), ClimaDoc("PIR", 2)>>,
               <<ClimaDoc("PIR", 1), Second(ClimaDoc("PIR", 1))>>,
               <<Bare(ClimaDoc("PIR", 1)), ClimaDoc("PIR", 2)>>,
               <<Bare(ClimaDoc("PIR", 1))>>,
               <<>>},
        q \in {<<ClimaDoc("POL", 2), ClimaDoc("POL", 3)>>,
               <<HalfPast(ClimaDoc("POL", 1))>>,
               <<>>}}

\* the steps of a chart request: the weather of site 1 and of site 2, each under
\* a key that ends with the site and under a key that begins with it
ChartSteps(i) ==
    IF i = 1
    THEN {Step("get_timeseries_data", Timeseries([center_id |-> IntV(1)]), "clima_pirquen"),
          Step("get_timeseries_data", Timeseries([center_id |-> IntV(2)]), "clima_polocuhe"),
          Step("get_timeseries_data", Timeseries([center_id |-> IntV(1)]), "pirquen_clima"),
          Step("get_timeseries_data", Timeseries([center_id |-> IntV(2)]), "polocuhe_clima"),
          Step("get_center_id_by_name", [center_name |-> Word("pirquen")], "pirquen_id"),
          Step("direct_answer", [response |-> Word("hola")], "respuesta_directa")}
    ELSE {Step("get_timeseries_data", Timeseries([center_ids |-> ListV(<<IntV(1), IntV(2)>>)]), "clima_pirquen"),
          Step("get_center_id_by_name", [center_name |-> Word("pirquen")], "pirquen_id"),
          Step("direct_answer", [response |-> Word("hola")], "respuesta_directa")}

ChartPlannerOutputs(i) ==
    {DictV([plan |-> ListV(q)]) : q \in SeqsUpTo(ChartSteps(i), MaxChartSteps)}
    \cup {DictV([error |-> Word("Fallo al generar el plan"), details |-> Word("detalle")]),
          DictV(EmptyDict), DictV([plan |-> None])}

InitAnswer ==
    /\ impl \in {1, 2}
    /\ centers = FixtureCenters
    /\ store \in ChartStores
    /\ pc = "planning"
    /\ plan \in ChartPlannerOutputs(impl)
    /\ pos = 0
    /\ collected_data = EmptyDict
    /\ calls = <<>>
    /\ writes = <<>>
    /\ args = None
    /\ result = None
    /\ user_wants_chart = FALSE
    /\ synth = None
    /\ response = None

\* what synthesize_response is called with
Handed(context) == [context |-> context]

\* a question_analizer that merges the results whatever the question asks for
Synthesize1Merging ==
    /\ pc = "executed" /\ impl = 1
    /\ \E wants \in BOOLEAN :
        /\ user_wants_chart' = wants
        /\ IF MergeRaises(collected_data, plan)
           THEN pc' = "crashed" /\ UNCHANGED <<collected_data, synth>>
           ELSE /\ pc' = "synthesized"
                /\ collected_data' = merge_timeseries_data_for_chart(collected_data, plan)
                /\ synth' = Handed(collected_data')
    /\ UNCHANGED <<response, impl, centers, store, plan, pos, calls, writes, args, result>>

\* question_analizer after the loop: the question asks for a chart or does not;
\* when it does the results are merged first, and the context goes to
\* synthesize_response.  An exception in the merge ends the request.
Synthesize1 ==
    /\ pc = "executed" /\ impl = 1
    /\ \E wants \in BOOLEAN :
        LET context == IF wants THEN merge_timeseries_data_for_chart(collected_data, plan)
                       ELSE collected_data
        IN  /\ user_wants_chart' = wants
            /\ IF wants /\ MergeRaises(collected_data, plan)
               THEN pc' = "crashed" /\ UNCHANGED <<collected_data, synth>>
               ELSE pc' = "synthesized" /\ collected_data' = context /\ synth' = Handed(context)
    /\ UNCHANGED <<response, impl, centers, store, plan, pos, calls, writes, args, result>>

\* question_analizer2 after the loop: the context goes to synthesize_response as it is
Synthesize2 ==
    /\ pc = "executed" /\ impl = 2
    /\ pc' = "synthesized"
    /\ synth' = Handed(collected_data)
    /\ UNCHANGED <<response, user_wants_chart, impl, centers, store, plan, pos, collected_data, calls, writes, args, result>>

-----------------------------------------------------------------------------
(* analyze_question_endpoint from the synthesis to the response *)

\* what synthesize_response may return: a text, a text followed by a fenced json
\* block that holds a chart, and a text followed by a fenced json block that holds
\* none (fence_json and fence are the opening and the closing fence)
SynthesisOutputs ==
    {Word("texto"),
     StrV(<<"texto", "fence_json", "{chart}", "fence">>),
     StrV(<<"texto", "fence_json", "{}", "fence">>)}

\* the chart of a report, as the block of the synthesis gives it
ReportChart ==
    DictV([type |-> Word("bar"), title |-> Word("informe"), xAxis |-> ListV(<<>>), series |-> ListV(<<>>)])

\* re.search of the fenced json block in raw_synthesis, and 'chart' in chart_obj
HoldsChart(raw_synthesis) ==
    \E n \in DOMAIN V(raw_synthesis) :
        /\ V(raw_synthesis)[n] = "fence_json"
        /\ n + 2 \in DOMAIN V(raw_synthesis)
        /\ V(raw_synthesis)[n + 1] = "{chart}" /\ V(raw_synthesis)[n + 2] = "fence"

\* re.sub of the fenced json block by '', and strip()
WithoutBlock(raw_synthesis) ==
    StrV(SelectSeq(V(raw_synthesis), LAMBDA t : t \notin {"fence_json", "{chart}", "{}", "fence"}))

\* question_analizer: collected_data["coordendadas"], from the keys polocuhe_id and
\* pirquen_id (the polygon and the zoom of the entry are left out)
Coordendadas1(context) ==
    IF Word("polocuhe_id") \in DOMAIN context /\ Word("pirquen_id") \in DOMAIN context
    THEN DictV([id |-> Word("5"), name |-> StrV(<<"Polocuhe", " y ", "Pirquen">>),
                color |-> Word("blue"), clima |-> Word("lluvioso")])
    ELSE IF Word("polocuhe_id") \in DOMAIN context
    THEN DictV([id |-> Word("5"), name |-> Word("Polocuhe"), color |-> Word("blue"), clima |-> Word("soleado")])
    ELSE IF Word("pirquen_id") \in DOMAIN context
    THEN DictV([id |-> Word("4"), name |-> Word("Pirquen"), color |-> Word("green"), clima |-> Word("soleado")])
    ELSE None

\* question_analizer: the chart of the response.  The merged chart when the merge
\* made one; else, for a chart request only, the chart of the synthesis
final_chart_object1(context, raw_synthesis) ==
    IF user_wants_chart /\ Word("merged_chart_data") \in DOMAIN context
    THEN context[Word("merged_chart_data")]
    ELSE IF user_wants_chart /\ HoldsChart(raw_synthesis) THEN ReportChart
    ELSE None

\* question_analizer: the text of the response, the block removed when its chart
\* was taken
final_text1(context, raw_synthesis) ==
    IF user_wants_chart /\ Word("merged_chart_data") \notin DOMAIN context /\ HoldsChart(raw_synthesis)
    THEN WithoutBlock(raw_synthesis)
    ELSE raw_synthesis

\* question_analizer after synthesize_response has returned: the chart, the
\* record of the question (which throws when Mongo is down), the coordinates and
\* the response
Respond1 ==
    /\ pc = "synthesized" /\ impl = 1
    /\ \E raw_synthesis \in SynthesisOutputs, env \in Envs :
        IF ~env.mongo_up
        THEN pc' = "crashed" /\ UNCHANGED <<collected_data, response>>
        ELSE /\ pc' = "responded"
             /\ collected_data' = Put(collected_data, Word("coordendadas"), Coordendadas1(collected_data))
             /\ response' = FinalResponse(final_text1(collected_data, raw_synthesis),
                                          final_chart_object1(collected_data, raw_synthesis),
                                          collected_data')
    /\ UNCHANGED <<user_wants_chart, synth, impl, centers, store, plan, pos, calls, writes, args, result>>

\* question_analizer2 after synthesize_response has returned: the chart of the
\* synthesis whatever the question, the record of the question and the response.
\* No plan here stores under polocuhe_info or pirquen_info, the keys that start
\* the restructuring of the context: coordendadas is None.
Respond2 ==
    /\ pc = "synthesized" /\ impl = 2
    /\ \E raw_synthesis \in SynthesisOutputs, env \in Envs :
        IF ~env.mongo_up
        THEN pc' = "crashed" /\ UNCHANGED <<collected_data, response>>
        ELSE /\ pc' = "responded"
             /\ collected_data' = Put(collected_data, Word("coordendadas"), None)
             /\ response' = FinalResponse(
                    IF HoldsChart(raw_synthesis) THEN WithoutBlock(raw_synthesis) ELSE raw_synthesis,
                    IF HoldsChart(raw_synthesis) THEN ReportChart ELSE None,
                    collected_data')
    /\ UNCHANGED <<user_wants_chart, synth, impl, centers, store, plan, pos, calls, writes, args, result>>

NextAnswer ==
    \/ ReceivePlan1 \/ ReceivePlan2 \/ ExecuteStep1 \/ ExecuteStep2 \/ FinishLoop
    \/ Synthesize1 \/ Synthesize2 \/ Respond1 \/ Respond2

SpecAnswer == InitAnswer /\ [][NextAnswer]_vars

-----------------------------------------------------------------------------
(* Properties of the chart, under SpecAnswer *)

\* the context as the loop left it
Collected == Assign(EmptyDict, writes)

\* the merge has run and has produced a chart
ChartProduced ==
    /\ impl = 1 /\ pc = "synthesized" /\ user_wants_chart
    /\ Word("merged_chart_data") \in DOMAIN collected_data

Chart == V(collected_data[Word("merged_chart_data")])
XAxis == V(Chart.xAxis)

\* the timestamps that occur in the results collected for the get_timeseries_data steps
AllTimestamps ==
    UNION {{ItemsOf(Collected, k)[n].fecha : n \in DOMAIN ItemsOf(Collected, k)} :
              k \in Range(timeseries_keys(plan))}

\* C12: in the chart produced by merge_timeseries_data_for_chart, the x axis
\* lists every timestamp that occurs in a collected time-series result, in
\* increasing order, and no label occurs twice.
C12_XAxisAllTimestamps ==
    ChartProduced =>
        /\ XAxis = MapSeq(sorted_instants(AllTimestamps), strftime_seconds)
        /\ \A i, j \in DOMAIN XAxis : i < j => XAxis[i] # XAxis[j]

\* the x axis as the claim has it, but for one label that two instants of the same
\* second share
C12_SameSecondTwice ==
    ChartProduced /\ XAxis = MapSeq(sorted_instants(AllTimestamps), strftime_seconds)
        => \A i, j \in DOMAIN XAxis : i < j => XAxis[i] # XAxis[j]

\* the series of the chart, the (origin_key, metric_name) each stands for, and the
\* instants of the x axis
ChartSeries == V(Chart.series)
SeriesDefs == unique_series_defs(Collected, Charted(Collected, plan))
ChartInstants == sorted_instants(UNION {InstantsOf(Collected, k) : k \in Charted(Collected, plan)})

\* the points of a series: the items of its result that hold its metric
PointsOf(sd) ==
    {item \in Range(ItemsOf(Collected, sd.origin_key)) : sd.metric_name \in DOMAIN item}

\* data is as long as the x axis, and its entry at an instant is a value the series
\* has there, or null when it has none
AlignedOrNull(sd, data) ==
    /\ Len(data) = Len(XAxis)
    /\ \A n \in DOMAIN data :
        LET here == {item \in PointsOf(sd) : item.fecha = ChartInstants[n]}
        IN  IF here = {} THEN data[n] = None
            ELSE \E item \in here : data[n] = IntV(item[sd.metric_name])

\* every point of the series is in data, at the index of its instant
NoPointDropped(sd, data) ==
    \A item \in PointsOf(sd) :
        \E n \in DOMAIN data : ChartInstants[n] = item.fecha /\ data[n] = IntV(item[sd.metric_name])

\* C13: in the chart produced by merge_timeseries_data_for_chart every series
\* has a data sequence as long as xAxis whose entry at each index is the value
\* the series has at that timestamp, or null when it has no point there; no
\* point of a series is dropped and no value is invented.
C13_SeriesAligned ==
    ChartProduced =>
        /\ Len(ChartSeries) = Len(SeriesDefs)
        /\ \A i \in DOMAIN ChartSeries :
            /\ AlignedOrNull(SeriesDefs[i], V(V(ChartSeries[i]).data))
            /\ NoPointDropped(SeriesDefs[i], V(V(ChartSeries[i]).data))

\* what is left of C13 when the dropped points are set aside
C13_AlignedNothingInvented ==
    ChartProduced =>
        /\ Len(ChartSeries) = Len(SeriesDefs)
        /\ \A i \in DOMAIN ChartSeries : AlignedOrNull(SeriesDefs[i], V(V(ChartSeries[i]).data))

\* the site a result key stands for: the center_id of the last step of the plan
\* that stores under the key
SiteOfKey(k) ==
    LET n == Max({m \in DOMAIN Steps : StepKey(m) = k})
    IN  V(StepParameters(n)).center_id

SeriesName(i) == V(ChartSeries[i]).name

\* C20: in the merged chart two series that come from different sites, or from
\* different (site, metric) pairs, have different names, whatever result keys
\* the plan chose.
C20_DistinctSeriesNames ==
    ChartProduced =>
        \A i, j \in DOMAIN ChartSeries :
            (\/ SiteOfKey(SeriesDefs[i].origin_key) # SiteOfKey(SeriesDefs[j].origin_key)
             \/ SeriesDefs[i].metric_name # SeriesDefs[j].metric_name)
                => SeriesName(i) # SeriesName(j)

\* the error payloads the loop left in the context
ErrorKeys == {k \in DOMAIN Collected : IsError(Collected[k])}

\* C19: every error payload recorded for a step during the execution of the plan
\* is in the context handed to the synthesis, under the step's result key and
\* with its "error" key, also when the chart merge has run in between.
C19_ErrorsReachSynthesis ==
    pc = "synthesized" =>
        \A k \in ErrorKeys : k \in DOMAIN synth.context /\ IsError(synth.context[k])

\* the planner returned an error, or nothing, or no plan
PlannerFailed ==
    \/ ~Truthy(plan)
    \/ "error" \in DOMAIN V(plan)
    \/ Get(V(plan), "plan", None) = None

\* C15: if the planner returns no plan or an error, the request is rejected
\* before any step runs: no tool is invoked, nothing is put into the execution
\* context and the synthesizer is not called.
C15_RejectedBeforeAnyStep ==
    PlannerFailed =>
        /\ pc \in {"planning", "rejected", "crashed"}
        /\ calls = <<>> /\ writes = <<>> /\ DOMAIN collected_data = {}
        /\ synth = None

\* requests refused for an error of the planner, for an empty answer and for a
\* plan that is null
C15_Witness ==
    /\ PlannerFailed /\ pc \in {"rejected", "crashed"}
    /\ calls = <<>> /\ synth = None

-----------------------------------------------------------------------------
(* Plans whose placeholders refer to failed, to later and to their own steps: *)
(* SpecRefs                                                                   *)

\* the steps of such plans: a lookup of the site under a and one under c, the
\* range of a site given by a field of a, by the error of a, by the step's own
\* result and by c, and a placeholder inside a list
RefSteps(i) ==
    {Step("get_center_id_by_name", [center_name |-> Word("pirquen")], "a"),
     Step("get_center_id_by_name", [center_name |-> Word("pirquen")], "c"),
     Step("get_data_range_for_source", RangeOf(Dollar("a", "center_id")), "b"),
     Step("get_data_range_for_source", RangeOf(Dollar("a", "error")), "b"),
     Step("get_data_range_for_source", RangeOf(Dollar("b", "center_id")), "b"),
     Step("get_data_range_for_source", RangeOf(Dollar("c", "center_id")), "b")}
    \cup IF i = 1
         THEN {Step("get_timeseries_data", [center_id |-> IntV(1), source |-> Word("clima"),
                                            metrics |-> ListV(<<Dollar("c", "center_name")>>)], "b")}
         ELSE {Step("get_data_range_for_source", RangeOf(Braces("c", "center_id")), "b"),
               Step("get_timeseries_data", [center_ids |-> ListV(<<Dollar("a", "center_id")>>),
                                            source |-> Word("clima"),
                                            metrics |-> Metric("temperatura_maxima")], "b")}

InitRefs ==
    /\ impl \in {1, 2}
    /\ centers = FixtureCenters
    /\ store = RequestStore
    /\ pc = "planning"
    /\ plan \in {DictV([plan |-> ListV(q)]) : q \in SeqsUpTo(RefSteps(impl), MaxPlanLen)}
    /\ pos = 0
    /\ collected_data = EmptyDict
    /\ calls = <<>>
    /\ writes = <<>>
    /\ args = None
    /\ result = None
    /\ user_wants_chart = FALSE
    /\ synth = None
    /\ response = None

SpecRefs == InitRefs /\ [][Next]_vars

-----------------------------------------------------------------------------
(* Properties of references, under SpecRefs *)

\* the key a placeholder names
KeyOf(x) == Word(V(x)[3])

\* the "${K.F}" of step n whose K holds an error payload when the step begins
RefersToError(n, p) ==
    /\ KeyOf(V(StepParameters(n))[p]) \in DOMAIN ContextBefore(n)
    /\ IsError(ContextBefore(n)[KeyOf(V(StepParameters(n))[p])])

\* C16: if the result stored under key K is an error payload, every placeholder
\* that refers to K, whatever field it names, fails to resolve: the step is
\* recorded as an error under its own result key and its tool is not invoked.
C16_ErrorResultNeverResolves ==
    \A n \in Done : \A p \in DollarParameters(n) :
        (Processed(n) /\ RefersToError(n, p)) => ReportedWithoutCall(n)

\* C16 for the fields an error payload does not have
C16_FieldsOtherThanError ==
    \A n \in Done : \A p \in DollarParameters(n) :
        (Processed(n) /\ RefersToError(n, p) /\ V(V(StepParameters(n))[p])[5] # "error")
            => ReportedWithoutCall(n)

\* the placeholders, of either syntax, that a parameter value holds: the value
\* itself, or elements of the list it is
PlaceholdersIn(v) ==
    IF K(v) = "list" THEN {V(v)[i] : i \in {j \in DOMAIN V(v) : DollarRef(V(v)[j]) \/ BracesRef(V(v)[j])}}
    ELSE IF DollarRef(v) \/ BracesRef(v) THEN {v}
    ELSE {}

\* the key the placeholder names is first stored by step n itself or by a later step
Forward(n, x) ==
    /\ KeyOf(x) \notin DOMAIN ContextBefore(n)
    /\ \E m \in DOMAIN Steps : m >= n /\ StepKey(m) = KeyOf(x)

\* C17: a step whose placeholder refers to a result key that is first stored by
\* the same step or by a later step of the plan is recorded as an error under its
\* own result key and its tool is not invoked: the text of the placeholder is
\* never passed to a tool as if it were a value.
C17_ForwardReferenceRefused ==
    \A n \in Done : K(StepParameters(n)) = "dict" =>
        \A p \in DOMAIN V(StepParameters(n)) : \A x \in PlaceholdersIn(V(StepParameters(n))[p]) :
            Forward(n, x) => ReportedWithoutCall(n)

\* C17 for the scalar "${K.F}" parameters
C17_DollarScalarRefused ==
    \A n \in Done : \A p \in DollarParameters(n) :
        Forward(n, V(StepParameters(n))[p]) => ReportedWithoutCall(n)

-----------------------------------------------------------------------------
(* The fallback key, under Spec *)

\* the tool of the step that made the last assignment to a key
LastTool(key) == StepTool(LastWrite(key).step)

\* the context holds, under the key, the zero-count result of a time-series-shaped step
HoldsZeroCount(key) ==
    /\ key \in DOMAIN collected_data
    /\ ZeroCount(collected_data[key])
    /\ K(LastTool(key)) = "str" /\ Join(V(LastTool(key))) \in TimeSeriesShaped

\* C18: at the end of the plan's execution the fallback key is an unambiguous
\* marker: wherever the context has "<K>_available_range" or "<K>_range_info",
\* context[K] is the zero-count result of a get_timeseries_data,
\* correlate_timeseries_data or get_monthly_aggregation step, never data, an error
\* or the result of another tool.
C18_FallbackKeyMarksZeroCount ==
    pc = "executed" =>
        \A n \in DOMAIN Steps :
            (\/ AvailableRangeKey(StepKey(n)) \in DOMAIN collected_data
             \/ RangeInfoKey(StepKey(n)) \in DOMAIN collected_data)
                => HoldsZeroCount(StepKey(n))

\* C18 for the plans in which no later step stores under the key again
C18_KeyNotStoredAgain ==
    pc = "executed" =>
        \A n \in FellBack :
            (\A m \in DOMAIN Steps : m > n => StepKey(m) # StepKey(n)) => HoldsZeroCount(StepKey(n))

-----------------------------------------------------------------------------
(* get_mortality_rate (the same in both packages).  Mortalidad is a percentage *)
(* and "Numero Ingreso" a number of fish, both whole numbers here; the         *)
(* pipeline's quotients are kept exact, as a numerator over a denominator.     *)

RECURSIVE SumOver(_, _)
\* {"$sum": "$field"} over a group of documents
SumOver(group, field) ==
    IF group = {} THEN 0
    ELSE LET d == CHOOSE x \in group : TRUE
         IN  d[field] + SumOver(group \ {d}, field)

\* round(num / den, 0) of a quotient that is not negative: ties go to the even side
RoundHalfEven(num, den) ==
    LET q == num \div den
        r == num % den
    IN  IF 2 * r < den THEN q
        ELSE IF 2 * r > den THEN q + 1
        ELSE IF q % 2 = 0 THEN q ELSE q + 1

\* {"$match": {Centro: {"$exists": True, "$ne": None, "$in": alias_values},
\*             Fecha: {"$lte": end of the end date}}}
MortalityMatch(docs, filtered, alias_values, dated, hi) ==
    {docs[n] : n \in {m \in DOMAIN docs :
        /\ filtered => docs[m].Centro \in alias_values
        /\ dated => docs[m].Fecha <= EndOfDay(hi)}}

\* $sort by site, unit and date descending, then $group by (site, unit) with
\* $first: the most recent document of each unit
LastOfUnit(matched) ==
    {d \in matched :
        \A e \in matched : (e.Centro = d.Centro /\ e.Unidad = d.Unidad) => e.Fecha <= d.Fecha}

\* the first $group and $project: for each unit its site, its stock and
\* mortalities_count = last_mortality_percent / 100 * initial_stock, in hundredths of a fish
UnitRows(units) ==
    {[centro |-> d.Centro, unidad |-> d.Unidad,
      last_mortality_percent |-> d.Mortalidad,
      initial_stock |-> d.NumeroIngreso,
      mortalities_count |-> d.Mortalidad * d.NumeroIngreso] : d \in units}

\* a plausible slip: the mean of the units' percentages, in hundredths of a percent
porcentaje_promedio(units) ==
    RoundHalfEven(100 * SumOver(units, "last_mortality_percent"), Cardinality(units))

\* round(porcentaje_mortalidad_total, 2), in hundredths of a percent:
\* total_mortalities / total_initial_stock * 100 when the stock is positive, else 0
porcentaje_mortalidad_total(units) ==
    IF SumOver(units, "initial_stock") > 0
    THEN RoundHalfEven(100 * SumOver(units, "mortalities_count"), SumOver(units, "initial_stock"))
    ELSE 0

\* the second $group and $project: one row per site
MortalityRow(centro, units) ==
    [centro |-> centro,
     total_peces_ingresados |-> SumOver(units, "initial_stock"),
     total_peces_muertos |-> RoundHalfEven(SumOver(units, "mortalities_count"), 100),
     porcentaje_mortalidad_total |-> porcentaje_mortalidad_total(units)]

\* the pipeline's result: the rows of the sites with a matched document, by name
MortalityRows(matched) ==
    LET units == UnitRows(LastOfUnit(matched))
        sites == SelectSeq(Collation, LAMBDA c : \E u \in units : u.centro = c)
    IN  MapSeq(sites, LAMBDA c : MortalityRow(c, {u \in units : u.centro = c}))

get_mortality_rate(a, env) ==
    LET filtered == Truthy(a.center_ids)
        ids == IF filtered THEN V(a.center_ids) ELSE <<>>
        alias_values == Range(AliasValues(ids, Word("alimentacion")))
        dated == Truthy(a.end_date)
        hi == IF dated /\ IsDateStr(a.end_date) THEN date_parser_parse(a.end_date) ELSE 0
        rows == MortalityRows(MortalityMatch(store.alimentacion, filtered, alias_values, dated, hi))
    IN  IF filtered /\ \E n \in DOMAIN ids : SqlRaises(ids[n], env) THEN Raise
        ELSE IF filtered /\ alias_values = {}
             THEN ErrorPayload("Ninguno de los IDs de centro proporcionados tiene un alias valido")
        ELSE IF dated /\ K(a.end_date) # "str" THEN Raise
        ELSE IF dated /\ ~IsDateStr(a.end_date) THEN ErrorPayload("Formato de fecha invalido")
        ELSE IF ~env.mongo_up THEN ErrorPayload("Error al calcular la tasa de mortalidad")
        ELSE IF rows = <<>> THEN DictV([count |-> IntV(0), data |-> ListV(<<>>)])
        ELSE DictV([count |-> IntV(Len(rows)), data |-> ListV(rows)])

-----------------------------------------------------------------------------
(* Direct calls of get_mortality_rate: SpecMortality *)

\* the units of a site
MaxUnits == 2

FeedDoc(centro, unidad, day, percent, stock) ==
    [Centro |-> centro, Unidad |-> unidad, Fecha |-> Midnight(day),
     Mortalidad |-> percent, NumeroIngreso |-> stock]

\* the records of one unit: 8 % of 1000 fish; 4 % of 500; 8 % of 1000 and a day
\* later a record with no stock; 4 % of 500 and a day later 1 % of 3, stored first
UnitHistory(centro, unidad, h) ==
    CASE h = 1 -> <<FeedDoc(centro, unidad, 1, 8, 1000)>>
      [] h = 2 -> <<FeedDoc(centro, unidad, 1, 4, 500)>>
      [] h = 3 -> <<FeedDoc(centro, unidad, 1, 8, 1000), FeedDoc(centro, unidad, 2, 5, 0)>>
      [] OTHER -> <<FeedDoc(centro, unidad, 2, 1, 3), FeedDoc(centro, unidad, 1, 4, 500)>>

MortalitySites == <<"Pirquen", "Polocuhe">>

MortalityStores ==
    {[clima |-> <<>>,
      alimentacion |-> Flatten([s \in DOMAIN MortalitySites |->
                            Flatten([u \in 1..MaxUnits |-> UnitHistory(MortalitySites[s], u, h[s][u])])])] :
        h \in [DOMAIN MortalitySites -> [1..MaxUnits -> 1..4]]}

MortalityArgs ==
    [center_ids : {None, ListV(<<IntV(1)>>), ListV(<<IntV(2), IntV(1)>>), ListV(<<IntV(3)>>),
                   ListV(<<IntV(UnknownId)>>), ListV(<<IntV(UnknownId), IntV(2)>>)},
     start_date : {None},
     end_date : {None, Word(DateStr(1))}]

InitMortality ==
    /\ Idle
    /\ impl \in {1, 2}
    /\ centers = FixtureCenters
    /\ store \in MortalityStores
    /\ pc = "call"
    /\ args \in MortalityArgs
    /\ result = None

CallMortality ==
    /\ pc = "call"
    /\ \E env \in Envs : result' = get_mortality_rate(args, env)
    /\ pc' = "returned"
    /\ UNCHANGED <<response, user_wants_chart, synth, impl, centers, store, plan, pos, collected_data, calls, writes, args>>

NextMortality == CallMortality

SpecMortality == InitMortality /\ [][NextMortality]_vars

-----------------------------------------------------------------------------
(* Properties of get_mortality_rate, under SpecMortality *)

\* the call returned rows
MortalityReported == pc = "returned" /\ K(result) = "dict" /\ Truthy(Get(V(result), "data", None))

\* the records of a unit of a site that the call looks at: all, or those up to
\* the end date
InPeriod(centro, unidad) ==
    {d \in Range(store.alimentacion) :
        /\ d.Centro = centro /\ d.Unidad = unidad
        /\ Truthy(args.end_date) => DayOf(d.Fecha) <= DayOf(date_parser_parse(args.end_date))}

\* the last record of the unit
LastRecord(centro, unidad) ==
    CHOOSE d \in InPeriod(centro, unidad) : \A e \in InPeriod(centro, unidad) : e.Fecha <= d.Fecha

RECURSIVE DeadTimes100(_, _)
\* the sum over the units 1..u of the site of last_mortality_percent * initial_stock
DeadTimes100(centro, u) ==
    IF u = 0 THEN 0
    ELSE DeadTimes100(centro, u - 1) +
         (IF InPeriod(centro, u) = {} THEN 0
          ELSE LastRecord(centro, u).Mortalidad * LastRecord(centro, u).NumeroIngreso)

RECURSIVE Stock(_, _)
\* the sum over the units 1..u of the site of initial_stock
Stock(centro, u) ==
    IF u = 0 THEN 0
    ELSE Stock(centro, u - 1) +
         (IF InPeriod(centro, u) = {} THEN 0 ELSE LastRecord(centro, u).NumeroIngreso)

\* hundredths is the ratio 100 * dead / stock rounded to two decimals: it is
\* within half a hundredth of the ratio
RoundedRatio(hundredths, dead_times_100, stock) ==
    /\ 2 * (hundredths * stock - 100 * dead_times_100) <= stock
    /\ 2 * (100 * dead_times_100 - hundredths * stock) <= stock

\* C14: get_mortality_rate reports for each site, whatever other sites are
\* requested, the ratio 100 * (sum over the site's units of
\* last_mortality_percent / 100 * initial_stock) / (sum over the site's units of
\* initial_stock) rounded to 2 decimals, and 0 for a site whose total initial
\* stock is 0.
C14_WeightedMortality ==
    MortalityReported =>
        \A n \in DOMAIN V(V(result).data) :
            LET row == V(V(result).data)[n]
            IN  IF Stock(row.centro, MaxUnits) = 0 THEN row.porcentaje_mortalidad_total = 0
                ELSE RoundedRatio(row.porcentaje_mortalidad_total,
                                  DeadTimes100(row.centro, MaxUnits), Stock(row.centro, MaxUnits))

\* C14 witness: two sites were asked for; one has a unit with 8 % of 1000 fish and
\* a unit with 4 % of 500 and is reported with 6.67 %, not with the mean 6 %; the
\* other has no stock and is reported with 0
C14_Witness ==
    /\ MortalityReported
    /\ Len(V(V(result).data)) = 2
    /\ \E n \in DOMAIN V(V(result).data) :
            /\ V(V(result).data)[n].total_peces_ingresados = 1500
            /\ V(V(result).data)[n].porcentaje_mortalidad_total = 667
    /\ \E n \in DOMAIN V(V(result).data) :
            /\ V(V(result).data)[n].total_peces_ingresados = 0
            /\ V(V(result).data)[n].porcentaje_mortalidad_total = 0

-----------------------------------------------------------------------------
(* The frame of the merge, under SpecAnswer *)

\* the result keys of the plan's get_timeseries_data steps
RawKeys == Range(timeseries_keys(plan))

\* C21: when merge_timeseries_data_for_chart produces a chart it removes from the
\* context the entry of every get_timeseries_data step of the plan and adds the
\* one entry merged_chart_data; every other entry is left as it was.
C21_MergeFrame ==
    ChartProduced =>
        /\ DOMAIN collected_data = (DOMAIN Collected \ RawKeys) \cup {Word("merged_chart_data")}
        /\ \A k \in DOMAIN collected_data :
                k # Word("merged_chart_data") => collected_data[k] = Collected[k]

\* C21 witness: a chart was produced, the entry of a get_timeseries_data step is
\* gone and the result of another tool is still in the context
C21_Witness ==
    /\ ChartProduced
    /\ RawKeys \cap DOMAIN Collected # {}
    /\ \E k \in DOMAIN collected_data : k # Word("merged_chart_data") /\ collected_data[k] = Collected[k]

\* the question asked for a chart and the merge has run
MergeRan == impl = 1 /\ pc = "synthesized" /\ user_wants_chart

\* a row with a timestamp and a value
IsPoint(item) == "fecha" \in DOMAIN item /\ DOMAIN item # {"fecha"}

\* the rows collected under a key: the items of the "data" list of its result
RowsUnder(k) ==
    IF k \in DOMAIN Collected /\ K(Collected[k]) = "dict" /\ K(Get(V(Collected[k]), "data", None)) = "list"
    THEN Range(V(V(Collected[k]).data))
    ELSE {}

\* no get_timeseries_data step left a point: there is no such step, or none of
\* their results holds one
NoPointCollected == \A k \in RawKeys : \A item \in RowsUnder(k) : ~IsPoint(item)

\* C22: if the plan has no get_timeseries_data step, or none of their results
\* holds a data point with a timestamp, merge_timeseries_data_for_chart returns
\* the context unchanged: no key added, none removed, no merged_chart_data.
C22_MergeNoOp ==
    (MergeRan /\ NoPointCollected) =>
        /\ collected_data = Collected
        /\ Word("merged_chart_data") \notin DOMAIN collected_data

\* C22 witness: the merge ran on a context that holds the entry of a
\* get_timeseries_data step without a point, and on the context of a plan
\* without such a step
C22_Witness ==
    /\ MergeRan /\ NoPointCollected
    /\ DOMAIN collected_data # {}
    /\ \/ RawKeys \cap DOMAIN collected_data # {}
       \/ RawKeys = {}

\* the context a first merge of what the loop left returns
MergedOnce == merge_timeseries_data_for_chart(Collected, plan)

\* C23: merge idempotence: applying merge_timeseries_data_for_chart again, with
\* the same plan, to the context a first merge returned leaves that context
\* unchanged, its merged_chart_data included.
C23_MergeIdempotent ==
    (impl = 1 /\ pc \in {"executed", "synthesized"} /\ ~MergeRaises(Collected, plan)) =>
        /\ ~MergeRaises(MergedOnce, plan)
        /\ merge_timeseries_data_for_chart(MergedOnce, plan) = MergedOnce

\* C23 witness: the merge has run and produced a chart of two series, and merging
\* the context it returned gives that context again
C23_Witness ==
    /\ ChartProduced
    /\ collected_data = MergedOnce
    /\ Len(ChartSeries) = 2
    /\ merge_timeseries_data_for_chart(collected_data, plan) = collected_data

-----------------------------------------------------------------------------
(* The chart request and the direct answer, under SpecAnswer *)

\* question_analizer has handed the context to the synthesis for a question
\* that did not ask for a chart
NoChartAsked == impl = 1 /\ ~user_wants_chart /\ pc \in {"synthesized", "responded"}

\* the text of the response still holds the chart block of the synthesis
BlockInAnswer == \E n \in DOMAIN V(response.answer) : V(response.answer)[n] = "{chart}"

\* C26: the series merger runs only for a chart request: when the question was
\* not classified as one, the context handed to the synthesis is exactly the
\* context the execution loop left (raw time-series entries included, no
\* merged_chart_data) and the response carries no chart.
C26_NoMergeWithoutChartRequest ==
    NoChartAsked =>
        /\ synth = Handed(Collected)
        /\ Word("merged_chart_data") \notin DOMAIN synth.context
        /\ \A k \in RawKeys \cap DOMAIN Collected : k \in DOMAIN synth.context
        /\ pc = "responded" => response.chart = None

\* C26 witness: a response without a chart to a question that did not ask for
\* one, although the loop left points a merge would have charted and the
\* synthesis wrote a chart block
C26_Witness ==
    /\ NoChartAsked /\ pc = "responded"
    /\ ~NoPointCollected
    /\ Word("merged_chart_data") \in DOMAIN merge_timeseries_data_for_chart(Collected, plan)
    /\ BlockInAnswer
    /\ response.chart = None

\* the plan begins with a direct_answer step of the shape the planner's prompt
\* gives: the text is under parameters.response
PromptShapedDirectAnswer ==
    /\ K(plan) = "dict" /\ K(Get(V(plan), "plan", None)) = "list" /\ Steps # <<>>
    /\ Get(V(Steps[1]), "tool", None) = Word("direct_answer")
    /\ K(Get(V(Steps[1]), "parameters", None)) = "dict"
    /\ "response" \in DOMAIN V(V(Steps[1]).parameters)

\* C27: when the plan's first step is direct_answer, the endpoint answers with
\* the text the step carries in parameters.response, executes no tool and
\* returns no chart.
C27_DirectAnswerText ==
    (PromptShapedDirectAnswer /\ pc \in {"answered", "responded"}) =>
        /\ response.answer = V(V(Steps[1]).parameters).response
        /\ response.chart = None
        /\ calls = <<>>

\* the two parts of C27 that hold in question_analizer: no tool is executed and
\* no chart is returned
C27_NoToolNoChart ==
    (impl = 1 /\ PromptShapedDirectAnswer) =>
        /\ calls = <<>>
        /\ pc \in {"planning", "answered"}
        /\ pc = "answered" => response.chart = None

-----------------------------------------------------------------------------
(* The metrics of a call and its dates, under SpecFetch *)

\* the metric names the call's loop over `metrics` meets
RequestedMetrics == {NameOf(V(AsList(args.metrics))[i]) : i \in DOMAIN V(AsList(args.metrics))}

\* the catalog of the call's source
Catalog == DOMAIN FULL_METRIC_MAP[NameOf(args.source)].metrics

\* the error payloads returned before the projection is built
EarlierErrors ==
    {ErrorPayload("Fuente no reconocida"), ErrorPayload("No se pudo crear un filtro"),
     ErrorPayload("Ninguno de los IDs de centro es valido"), ErrorPayload("Formato de fecha invalido")}

\* the call has returned from the projection or from a later line
ReachedProjection == Returned /\ result # Raise /\ result \notin EarlierErrors

\* the fields a row holds besides its timestamp and, in question_analizer2, its site
MetricsOfRow(row) == DOMAIN row \ {"fecha", FULL_METRIC_MAP[NameOf(args.source)].center_name_field}

\* C24: get_timeseries_data drops from the projection every requested metric
\* that is not in the catalog of the source and returns the others; it returns
\* the "no valid metric" error, whatever the state of the store, exactly when
\* none of the requested metrics is in the catalog.
C24_UnknownMetricsDropped ==
    ReachedProjection =>
        /\ (result = ErrorPayload("Ninguna de las metricas es valida"))
                <=> (RequestedMetrics \cap Catalog = {})
        /\ Succeeded /\ "data" \in DOMAIN V(result) =>
            \A n \in DOMAIN V(V(result).data) :
                LET row == V(V(result).data)[n]
                IN  /\ MetricsOfRow(row) \subseteq RequestedMetrics \cap Catalog
                    /\ \A m \in RequestedMetrics \cap Catalog :
                        m \in DOMAIN row =>
                            \E d \in Range(Matched) :
                                /\ FULL_METRIC_MAP[NameOf(args.source)].metrics[m] \in DOMAIN d
                                /\ d[FULL_METRIC_MAP[NameOf(args.source)].metrics[m]] = row[m]
                                /\ d[FULL_METRIC_MAP[NameOf(args.source)].fecha] = row.fecha

\* C24 witness: a metric of the catalog requested together with one that is not,
\* and rows returned that hold the first
C24_Witness ==
    /\ Succeeded
    /\ RequestedMetrics \ Catalog # {}
    /\ RequestedMetrics \cap Catalog # {}
    /\ V(V(result).data) # <<>>
    /\ \A n \in DOMAIN V(V(result).data) :
            MetricsOfRow(V(V(result).data)[n]) = RequestedMetrics \cap Catalog

\* C24 witness of the error: only metrics outside the catalog requested, of a
\* site that has rows
C24_WitnessNoneValid ==
    /\ Returned /\ result = ErrorPayload("Ninguna de las metricas es valida")
    /\ RequestedMetrics # {}
    /\ Len(Matched) > 0

\* exactly one of start_date and end_date is supplied, and no limit
OneDateNoLimit ==
    /\ Truthy(args.start_date) # Truthy(args.end_date)
    /\ args.limit = None

\* every document of the requested sites, whatever its date
AllOfSites ==
    LET config == FULL_METRIC_MAP[NameOf(args.source)]
    IN  SelectSeq(store[NameOf(args.source)], LAMBDA d :
            d[config.center_name_field] \in Range(AliasValues(RequestedIds, args.source)))

\* the date named by the one date of the call, when it is a date
OneDate == IF Truthy(args.start_date) THEN args.start_date ELSE args.end_date

-----------------------------------------------------------------------------
(* The preview limit of a correlation, under SpecCorrelate *)

\* C29: correlate_timeseries_data of question_analizer2 never applies the
\* default preview limit: whatever start_date, end_date and limit are, a
\* successful result has default_limit_used == false, and a successful call
\* without dates ran over the computed overlap.
C29_CorrelationNeverPreviews ==
    (impl = 2 /\ Succeeded) =>
        /\ "default_limit_used" \in DOMAIN V(result)
        /\ V(result).default_limit_used = BoolV(FALSE)
        /\ NoDates =>
            \E lo, hi \in 1..LastDay :
                /\ lo <= hi
                /\ V(result).date_range_used = StrV(<<DateStr(lo), " a ", DateStr(hi)>>)

\* C29 witness: a call without dates and without a limit that returned joined
\* rows of the overlap
C29_Witness ==
    /\ impl = 2 /\ Succeeded /\ NoDates /\ args.limit = None
    /\ V(V(result).count) > 0
    /\ V(result).default_limit_used = BoolV(FALSE)

-----------------------------------------------------------------------------
(* The plan during its execution, under SpecRefs *)

\* C30: executing a plan never modifies the plan: no step of the request changes
\* it, so after the loop every step's parameters hold their original values,
\* placeholders included, and the plan read after the loop is the plan given.
C30_PlanNeverModified == [][plan' = plan]_vars

\* the parameter p of step n holds a placeholder, alone or in a list
HoldsPlaceholder(n, p) ==
    LET x == V(StepParameters(n))[p]
    IN  \/ K(x) = "str" /\ MatchesDollar(V(x))
        \/ K(x) = "list" /\ \E m \in DOMAIN V(x) : K(V(x)[m]) = "str" /\ MatchesDollar(V(V(x)[m]))

\* the call of step n got a value in the place of the placeholder of p
Replaced(n, p) ==
    \E c \in DOMAIN calls :
        /\ calls[c].step = n
        /\ p \in DOMAIN calls[c].args
        /\ calls[c].args[p] # V(StepParameters(n))[p]

\* C30 witness: the loop is over, a tool was called with the value of a
\* placeholder, and the step of the plan still holds the placeholder
C30_Witness ==
    /\ pc = "executed"
    /\ \E n \in DOMAIN Steps :
        /\ K(Get(V(Steps[n]), "parameters", None)) = "dict"
        /\ \E p \in DOMAIN V(StepParameters(n)) : HoldsPlaceholder(n, p) /\ Replaced(n, p)

\* C30 witness for a list: the same for a placeholder that is an item of a list
C30_WitnessList ==
    /\ pc = "executed"
    /\ \E n \in DOMAIN Steps :
        /\ K(Get(V(Steps[n]), "parameters", None)) = "dict"
        /\ \E p \in DOMAIN V(StepParameters(n)) :
            /\ K(V(StepParameters(n))[p]) = "list"
            /\ HoldsPlaceholder(n, p) /\ Replaced(n, p)

-----------------------------------------------------------------------------
(* get_monthly_aggregation.  The calendar goes on before and after the days *)
(* of DateStr: day 0 is 31 December 2023, day 32 is 1 February 2024 and day *)
(* 61 is 1 March 2024.  Aggregated values are in hundredths.                *)

LastOfJanuary == 31
LastOfFebruary == 60

\* {"$year": "$<date_field>"} and {"$month": "$<date_field>"}
YearOf(t) == IF DayOf(t) < 1 THEN 2023 ELSE 2024
MonthOf(t) ==
    IF DayOf(t) < 1 THEN 12
    ELSE IF DayOf(t) <= LastOfJanuary THEN 1
    ELSE IF DayOf(t) <= LastOfFebruary THEN 2
    ELSE 3

\* {"$concat": [{"$toString": "$_id.year"}, "-", {"$toString": "$_id.month"}]}
periodo(g) == ToString(g.year) \o "-" \o ToString(g.month)

\* MONGO_AGG_OPERATORS.get(aggregation.lower())
MONGO_AGG_OPERATORS == {"sum", "avg"}

\* the _id of the group of a document: year and month, and in question_analizer2
\* the site as well
GroupId(i, d, config) ==
    IF i = 1 THEN [year |-> YearOf(d[config.fecha]), month |-> MonthOf(d[config.fecha])]
    ELSE [centro |-> d[config.center_name_field],
          year |-> YearOf(d[config.fecha]), month |-> MonthOf(d[config.fecha])]

RECURSIVE FieldSum(_, _)
\* the sum of a field over the documents that hold it
FieldSum(docs, field) ==
    IF docs = <<>> THEN 0
    ELSE (IF field \in DOMAIN Head(docs) THEN Head(docs)[field] ELSE 0) + FieldSum(Tail(docs), field)

\* {"$round": [{"$sum" or "$avg": "$<field>"}, 2]} over the documents of a group,
\* in hundredths; the average of no value is null
Aggregate(operator, docs, field) ==
    LET held == SelectSeq(docs, LAMBDA d : field \in DOMAIN d)
    IN  IF operator = "sum" THEN 100 * FieldSum(held, field)
        ELSE IF held = <<>> THEN None
        ELSE RoundHalfEven(100 * FieldSum(held, field), Len(held))

\* the place of a group in {"$sort": {"_id.year": .., "_id.month": ..}}
PeriodRank(g) == 12 * g.year + g.month

\* the order of the site names the model uses
CentroOrder == <<"CUA", "PIR", "POL">>
CentroRank(c) == CHOOSE n \in DOMAIN CentroOrder : CentroOrder[n] = c

\* the place of a group in the last $sort of the pipeline: by period in
\* question_analizer, by site and then by period in question_analizer2
OutputRank(g) ==
    IF "centro" \in DOMAIN g THEN 100000 * CentroRank(g.centro) + PeriodRank(g) ELSE PeriodRank(g)

\* a plausible slip: the limit keeps the oldest groups
OldestGroups(groups, limit) ==
    IF ~Truthy(limit) THEN {groups}
    ELSE {kept \in SUBSET groups :
            /\ Cardinality(kept) = IF V(limit) < Cardinality(groups) THEN V(limit) ELSE Cardinality(groups)
            /\ \A g \in kept, h \in groups \ kept : PeriodRank(h) >= PeriodRank(g)}

\* {"$sort": {"_id.year": -1, "_id.month": -1}} and, `if limit`, {"$limit": limit}:
\* the sets of groups that can be left.  Groups of one period are in no
\* particular order, so any of them may fall to the limit.
MostRecentGroups(groups, limit) ==
    IF ~Truthy(limit) THEN {groups}
    ELSE {kept \in SUBSET groups :
            /\ Cardinality(kept) = IF V(limit) < Cardinality(groups) THEN V(limit) ELSE Cardinality(groups)
            /\ \A g \in kept, h \in groups \ kept : PeriodRank(h) <= PeriodRank(g)}

\* the groups in the order of the last $sort
InOutputOrder(groups) ==
    [k \in 1..Cardinality(groups) |->
        CHOOSE g \in groups : Cardinality({h \in groups : OutputRank(h) < OutputRank(g)}) = k - 1]

\* $project: the period, the site in question_analizer2, and each valid metric
MonthlyRow(g, docs, config, valid, operator) ==
    [x \in {"periodo"} \cup (DOMAIN g \cap {"centro"}) \cup valid |->
        IF x = "periodo" THEN periodo(g)
        ELSE IF x = "centro" THEN g.centro
        ELSE Aggregate(operator, docs, config.metrics[x])]

\* the results of the pipeline on the matched documents: one for every set of
\* groups the limit can leave
MonthlyResults(i, matched, config, valid, operator, limit) ==
    LET groups == {GroupId(i, matched[n], config) : n \in DOMAIN matched}
    IN  {LET data == MapSeq(InOutputOrder(kept), LAMBDA g :
                        MonthlyRow(g, SelectSeq(matched, LAMBDA d : GroupId(i, d, config) = g),
                                   config, valid, operator))
         IN  DictV([count |-> IntV(Len(data)), data |-> ListV(data)]) :
            kept \in MostRecentGroups(groups, limit)}

\* the part of both functions from the date filter on
MonthlyFrom(i, a, env, aliases, filtered) ==
    LET config == FULL_METRIC_MAP[NameOf(a.source)]
        valid == ValidMetrics(AsList(a.metrics), config)
    IN  IF WantsRange(a) /\ ~(IsDateStr(a.start_date) /\ IsDateStr(a.end_date)) THEN {Raise}
        ELSE IF ~Iterable(a.metrics) THEN {Raise}
        ELSE IF valid = {} THEN {ErrorPayload("Ninguna de las metricas es valida")}
        ELSE IF ~env.mongo_up \/ ~LimitOk(a.limit)
             THEN {ErrorPayload("Error al calcular la agregacion mensual")}
        ELSE LET lo == IF WantsRange(a) THEN date_parser_parse(a.start_date) ELSE 0
                 hi == IF WantsRange(a) THEN date_parser_parse(a.end_date) ELSE 0
                 matched == SelectSeq(store[NameOf(a.source)], LAMBDA d :
                                /\ filtered => d[config.center_name_field] \in aliases
                                /\ WantsRange(a) =>
                                        (lo <= d[config.fecha] /\ d[config.fecha] <= EndOfDay(hi)))
             IN  MonthlyResults(i, matched, config, valid, NameOf(a.aggregation), a.limit)

\* get_monthly_aggregation of question_analizer: one site
get_monthly_aggregation(a, env) ==
    IF K(a.aggregation) # "str" THEN {Raise}
    ELSE IF NameOf(a.aggregation) \notin MONGO_AGG_OPERATORS THEN {ErrorPayload("Tipo de agregacion no valido")}
    ELSE IF Unhashable(a.source) THEN {Raise}
    ELSE IF NameOf(a.source) \notin DOMAIN FULL_METRIC_MAP THEN {ErrorPayload("Fuente no reconocida")}
    ELSE IF SqlRaises(a.center_id, env) THEN {Raise}
    ELSE LET match_filter == _build_mongo_filter(a.center_id, a.source)
         IN  IF ~Truthy(match_filter) THEN {ErrorPayload("No se pudo crear un filtro")}
             ELSE MonthlyFrom(1, a, env,
                      {NameOf(V(match_filter)[FULL_METRIC_MAP[NameOf(a.source)].center_name_field])}, TRUE)

\* get_monthly_aggregation of question_analizer2 (the later of the two methods
\* of that name in the class): the sites of center_ids, or every site
get_monthly_aggregation2(a, env) ==
    IF K(a.aggregation) # "str" THEN {Raise}
    ELSE IF NameOf(a.aggregation) \notin MONGO_AGG_OPERATORS THEN {ErrorPayload("Agregacion no valida")}
    ELSE IF Unhashable(a.source) THEN {Raise}
    ELSE IF NameOf(a.source) \notin DOMAIN FULL_METRIC_MAP THEN {ErrorPayload("Fuente no reconocida")}
    ELSE IF ~Truthy(a.center_ids) THEN MonthlyFrom(2, a, env, {}, FALSE)
    ELSE IF K(a.center_ids) # "list" THEN {Raise}
    ELSE IF \E n \in DOMAIN V(a.center_ids) : SqlRaises(V(a.center_ids)[n], env) THEN {Raise}
    ELSE LET alias_values == AliasValues(V(a.center_ids), a.source)
         IN  IF alias_values = <<>> THEN {ErrorPayload("Ningun ID de centro proporcionado es valido")}
             ELSE MonthlyFrom(2, a, env, Range(alias_values), TRUE)

-----------------------------------------------------------------------------
(* Direct calls of get_monthly_aggregation: SpecMonthly *)

\* the days of the fixture: 31 December, 1 and 2 January, 1 February, 1 March
MonthlyDays == {0, 1, 2, LastOfJanuary + 1, LastOfFebruary + 1}

\* weather records of PIR on any of the days, of POL on any of two of them
MonthlyStores ==
    {[clima |-> MapSeq(SelectSeq(<<LastOfFebruary + 1, 2, 0, LastOfJanuary + 1, 1>>, LAMBDA d : d \in A),
                       LAMBDA d : ClimaDoc("PIR", d))
                \o MapSeq(SelectSeq(<<1, LastOfFebruary + 1>>, LAMBDA d : d \in B),
                          LAMBDA d : ClimaDoc("POL", d)),
      alimentacion |-> <<>>] :
        A \in SUBSET MonthlyDays, B \in SUBSET {1, LastOfFebruary + 1}}

MonthlyCommon ==
    [source : {Word("clima")}, metrics : {Metric("temperatura_maxima")},
     aggregation : {Word("sum"), Word("avg")},
     start_date : {None}, end_date : {None}, limit : {None, IntV(0), IntV(1), IntV(2)}]

MonthlyOther ==
    [source : {Word("clima"), Word("satelite")},
     metrics : {Metric("salinidad"), ListV(<<Word("salinidad"), Word("temperatura_maxima")>>)},
     aggregation : {Word("sum"), Word("mediana")},
     start_date : {None, Word(DateStr(1))}, end_date : {None, Word(DateStr(2))}, limit : {None, IntV(-1)}]

\* the bound arguments of a call, by package
MonthlyArgs(i) ==
    IF i = 1
    THEN {r @@ [center_id |-> c] : r \in MonthlyCommon \cup MonthlyOther,
                                   c \in {IntV(1), IntV(3), IntV(UnknownId)}}
    ELSE {r @@ [center_ids |-> c] : r \in MonthlyCommon \cup MonthlyOther,
                                    c \in {None, ListV(<<IntV(1)>>), ListV(<<IntV(2), IntV(1)>>),
                                           ListV(<<IntV(3)>>)}}

InitMonthly ==
    /\ Idle
    /\ impl \in {1, 2}
    /\ centers = FixtureCenters
    /\ store \in MonthlyStores
    /\ pc = "call"
    /\ args \in MonthlyArgs(impl)
    /\ result = None

\* the tool is called and returns, or throws
CallMonthly ==
    /\ pc = "call"
    /\ \E env \in Envs :
        result' \in IF impl = 1 THEN get_monthly_aggregation(args, env)
                    ELSE get_monthly_aggregation2(args, env)
    /\ pc' = "returned"
    /\ UNCHANGED <<response, user_wants_chart, synth, impl, centers, store, plan, pos, collected_data, calls, writes, args>>

NextMonthly == CallMonthly

SpecMonthly == InitMonthly /\ [][NextMonthly]_vars

-----------------------------------------------------------------------------
(* Properties of get_monthly_aggregation, under SpecMonthly *)

\* the documents of the sites the call asks for: every site when
\* question_analizer2 is given no center_ids
MonthlyMatched ==
    LET config == FULL_METRIC_MAP[NameOf(args.source)]
    IN  SelectSeq(store[NameOf(args.source)], LAMBDA d :
            IF impl = 2 /\ ~Truthy(args.center_ids) THEN TRUE
            ELSE d[config.center_name_field] \in Range(AliasValues(RequestedIds, args.source)))

\* the period of a document
PeriodOf(d) ==
    [year |-> YearOf(d[FULL_METRIC_MAP[NameOf(args.source)].fecha]),
     month |-> MonthOf(d[FULL_METRIC_MAP[NameOf(args.source)].fecha])]

\* the (year, month) periods that have data
DataPeriods == {PeriodOf(MonthlyMatched[n]) : n \in DOMAIN MonthlyMatched}

\* the N most recent of them, all of them when there are fewer
RecentPeriods(N) ==
    {p \in DataPeriods : Cardinality({q \in DataPeriods : PeriodRank(q) > PeriodRank(p)}) < N}

\* what tells a row from another: its period and, in question_analizer2, its site
RowId(row) == [x \in DOMAIN row \cap {"periodo", "centro"} |-> row[x]]

\* the rows of the N most recent periods, by what tells them apart
ExpectedRowIds(N) ==
    {RowId(MonthlyRow(GroupId(impl, MonthlyMatched[n], FULL_METRIC_MAP[NameOf(args.source)]),
                      <<>>, FULL_METRIC_MAP[NameOf(args.source)], {}, "sum")) :
        n \in {m \in DOMAIN MonthlyMatched : PeriodOf(MonthlyMatched[m]) \in RecentPeriods(N)}}

\* the period a row names
RowPeriod(row) == CHOOSE p \in DataPeriods : periodo(p) = row.periodo

\* a successful call with a limit of one or more and no date range
LimitedMonthly ==
    /\ Succeeded /\ K(args.limit) = "int" /\ V(args.limit) >= 1
    /\ ~WantsRange(args)

MonthlyData == V(V(result).data)

\* C25: get_monthly_aggregation called with limit N returns exactly the rows of
\* the N most recent (year, month) periods that have data, all of them when
\* there are fewer than N, in ascending order of period, also when several
\* sites are aggregated in one call.
C25_MostRecentPeriods ==
    LimitedMonthly =>
        /\ {RowId(MonthlyData[n]) : n \in DOMAIN MonthlyData} = ExpectedRowIds(V(args.limit))
        /\ Len(MonthlyData) = Cardinality(ExpectedRowIds(V(args.limit)))
        /\ \A n, m \in DOMAIN MonthlyData :
                n < m => PeriodRank(RowPeriod(MonthlyData[n])) <= PeriodRank(RowPeriod(MonthlyData[m]))

\* the documents the call aggregates are of one site
OneSiteAggregated ==
    Cardinality({MonthlyMatched[n][FULL_METRIC_MAP[NameOf(args.source)].center_name_field] :
                    n \in DOMAIN MonthlyMatched}) <= 1

\* the part of C25 that holds: the same for the calls that aggregate one site
C25_OneSite == (LimitedMonthly /\ OneSiteAggregated) => C25_MostRecentPeriods

\* a call with a limit that cut the periods of one site, a year's end among them
C25_OneSiteWitness ==
    /\ LimitedMonthly /\ OneSiteAggregated
    /\ Cardinality(DataPeriods) > V(args.limit)
    /\ Len(MonthlyData) = 2
    /\ \E p \in DataPeriods : p.year = 2023

====
